---- MODULE Spec2Model ----
(***************************************************************************)
(* Model of the puzzle bot's core (src/src/puzzleBot.js): the seeded       *)
(* generator, the geometry assembler, the safe-zone calculator and the     *)
(* text layout engine.                                                     *)
(*                                                                         *)
(* Numbers.  The generator's state and mixing are 32-bit and are modelled  *)
(* bit for bit: a word is a pair <<hi, lo>> of 16-bit halves, because the  *)
(* integers TLC computes with are 32-bit signed.  Pixel values are exact   *)
(* rationals kept as integer numerators over a denominator that is fixed   *)
(* per axis (see PxDen); IEEE rounding of the JavaScript doubles is not    *)
(* modelled.                                                               *)
(***************************************************************************)
EXTENDS Integers, Sequences, FiniteSets, TLC

\* ------------------------------------------------------------------------
\* 32-bit words as <<hi, lo>>, hi and lo in 0..65535
\* ------------------------------------------------------------------------

Half == 65536

Min(a, b) == IF a <= b THEN a ELSE b

Max(a, b) == IF a >= b THEN a ELSE b

Abs(a) == IF a < 0 THEN -a ELSE a

\* x ^ y and x | y on one bit, then on 4-bit digits by table.
RECURSIVE BitOp(_, _, _, _)
BitOp(kind, x, y, n) ==
  IF n = 0 THEN 0
  ELSE LET bx == x % 2
           by == y % 2
           b  == IF kind = "xor" THEN (bx + by) % 2 ELSE Max(bx, by)
       IN  b + 2 * BitOp(kind, x \div 2, y \div 2, n - 1)

XorNib == [x \in 0..15 |-> [y \in 0..15 |-> BitOp("xor", x, y, 4)]]

OrNib == [x \in 0..15 |-> [y \in 0..15 |-> BitOp("or", x, y, 4)]]

Nib16(tab, x, y) ==
    tab[x % 16][y % 16]
  + 16 * tab[(x \div 16) % 16][(y \div 16) % 16]
  + 256 * tab[(x \div 256) % 16][(y \div 256) % 16]
  + 4096 * tab[x \div 4096][y \div 4096]

\* ToUint32 of a non-negative integer (seed >>> 0).
ToUint32(n) == <<(n \div Half) % Half, n % Half>>

Xor32(a, b) == <<Nib16(XorNib, a[1], b[1]), Nib16(XorNib, a[2], b[2])>>

Or32(a, b) == <<Nib16(OrNib, a[1], b[1]), Nib16(OrNib, a[2], b[2])>>

Add32(a, b) ==
  LET lo == a[2] + b[2]
  IN  <<(a[1] + b[1] + lo \div Half) % Half, lo % Half>>

Pow2(n) == IF n = 0 THEN 1 ELSE
           IF n = 7 THEN 128 ELSE
           IF n = 14 THEN 16384 ELSE 32768

\* a >>> n for 0 < n < 16.
Shr32(a, n) ==
  LET p == Pow2(n)
      q == Half \div p
  IN  <<a[1] \div p, (a[2] \div p) + (a[1] % p) * q>>

\* The low 16 bits of x * y, without leaving 32-bit signed range.
MulLow16(x, y) ==
  ((x % 256) * y + (((x \div 256) * (y % 256)) % 256) * 256) % Half

\* Math.imul: the low 32 bits of the product.
Imul32(a, b) ==
  LET p0    == (a[2] % 256) * b[2]
      p1    == (a[2] \div 256) * b[2]
      low   == p0 + (p1 % 256) * 256
      carry == low \div Half + p1 \div 256
      cross == MulLow16(a[1], b[2]) + MulLow16(a[2], b[1])
  IN  <<(carry + cross) % Half, low % Half>>

\* ------------------------------------------------------------------------
\* createRng: a generator is its 32-bit state; calls counts the calls of
\* rand() made on it (a ghost, read only by the properties).
\* ------------------------------------------------------------------------

RngIncrement == <<27947, 31221>>    \* 0x6d2b79f5

createRng(seed) == [state |-> ToUint32(seed), calls |-> 0]

\* The three mixing statements of the generator's body, on the stepped state.
imulFirst(t) == Imul32(Xor32(t, Shr32(t, 15)), Or32(t, <<0, 1>>))

imulSecond(r) == Xor32(r, Add32(r, Imul32(Xor32(r, Shr32(r, 7)), Or32(r, <<0, 61>>))))

\* The last statement without its >>> 0: a signed 32-bit result.
signedOut(r) ==
  LET u == Xor32(r, Shr32(r, 14))
  IN  IF u[1] >= Half \div 2 THEN <<u[1] - Half, u[2]>> ELSE u

unsignedOut(r) == Xor32(r, Shr32(r, 14))

randFrom(t, calls) ==
  [rng |-> [state |-> t, calls |-> calls + 1], k |-> unsignedOut(imulSecond(imulFirst(t)))]

\* One call of rand(): the stepped generator and the 32-bit numerator k of
\* the value k / 4294967296.
rand(rng) == randFrom(Add32(rng.state, RngIncrement), rng.calls)

\* ------------------------------------------------------------------------
\* Fixed point.  A draw keeps its top RandBits bits; a control point
\* coordinate is a numerator over NormDen; a pixel value on an axis cut in n
\* cells is a numerator over PxDen(n), which makes width / n, the 1.05
\* safety factor and the 0.18, 0.1 and 0.9 fractions exact.
\* ------------------------------------------------------------------------

RandBits == 5

RandUnit == 2 ^ RandBits

NormDen == 100 * RandUnit

PxScale == 20 * NormDen

PxDen(n) == PxScale * n

\* r.value * (max - min) + min for a draw r, in units of 1 / RandUnit.
scaleDraw(r, min, max) ==
  [rng |-> r.rng,
   value |-> (r.k[1] \div (Half \div RandUnit)) * (max - min) + min * RandUnit]

\* rng() * (max - min) + min.
randomBetween(rng, min, max) == scaleDraw(rand(rng), min, max)

\* The ranges of the eight coordinates edgeDistributions draws, in the order
\* it draws them: p2 x, p2 y, p3 x, p3 y, p4 x, p4 y, p5 x, p5 y.
CoordinateRanges ==
  << <<51, 62>>, <<-15, 5>>, <<20, 30>>, <<20, 44>>,
     <<100 - 30, 100 - 20>>, <<20, 44>>, <<100 - 62, 100 - 51>>, <<-15, 5>> >>

drawnCoordinate(r, ranges, values) ==
  [rng |-> r.rng, ranges |-> Tail(ranges), values |-> Append(values, r.value)]

\* The eight randomBetween calls, one after the other on the same generator.
RECURSIVE drawCoordinates(_, _, _)
drawCoordinates(rng, ranges, values) ==
  IF Len(values) >= 8 THEN [rng |-> rng, values |-> values]
  ELSE LET d == drawnCoordinate(randomBetween(rng, Head(ranges)[1], Head(ranges)[2]),
                                ranges, values)
       IN  drawCoordinates(d.rng, d.ranges, d.values)

\* The ninth draw s decides the sign; the points are normalized (divided by
\* 100, so over NormDen) and amp is the largest |y|.
signedEdge(v, s) ==
  LET sign == IF s.k[1] < Half \div 2 THEN -1 ELSE 1
      normalized == << <<0, 0>>, <<v[1], v[2]>>, <<v[3], v[4]>>,
                       <<v[5], v[6]>>, <<v[7], v[8]>>, <<100 * RandUnit, 0>> >>
      amp == Max(Max(Abs(v[2]), Abs(v[4])), Max(Abs(v[6]), Abs(v[8])))
  IN  [line |-> [points |-> [i \in 1..6 |-> <<normalized[i][1], normalized[i][2] * sign>>],
                 amp |-> amp, sign |-> sign],
       rng |-> s.rng]

edgeFromDraws(d) == signedEdge(d.values, rand(d.rng))

\* edgeDistributions: six control points, the amplitude and the sign, from
\* nine draws in source order.
edgeDistributions(rng) == edgeFromDraws(drawCoordinates(rng, CoordinateRanges, <<>>))

\* A border edge that bulges like a sampled one.
BulgedLine == [points |-> << <<0, 0>>, <<NormDen, 0>> >>, amp |-> NormDen \div 4, sign |-> 1]

\* The flat edge of a border row or column.
FlatLine == [points |-> << <<0, 0>>, <<NormDen, 0>> >>, amp |-> 0, sign |-> 0]

\* The inner loop of buildDistributions (j < columnCount): one sampled edge
\* per pass.
RECURSIVE sampleLines(_, _, _)
pushLine(lines, e, columnCount) == sampleLines(Append(lines, e.line), e.rng, columnCount)

sampleLines(lines, rng, columnCount) ==
  IF Len(lines) >= columnCount THEN [lines |-> lines, rng |-> rng]
  ELSE pushLine(lines, edgeDistributions(rng), columnCount)

\* The outer loop (i from 1 while i < rowCount): i is the number of groups
\* pushed so far.
RECURSIVE sampleGroups(_, _, _, _)
pushGroup(lineGroups, g, rowCount, columnCount) ==
  sampleGroups(Append(lineGroups, g.lines), g.rng, rowCount, columnCount)

sampleGroups(lineGroups, rng, rowCount, columnCount) ==
  IF Len(lineGroups) >= rowCount THEN [lineGroups |-> lineGroups, rng |-> rng]
  ELSE pushGroup(lineGroups, sampleLines(<<>>, rng, columnCount), rowCount, columnCount)

borderLines(columnCount) == [j \in 1..columnCount |-> FlatLine]

\* Groups left without the far border.
leaveOpen(inner, columnCount) == [lineGroups |-> inner.lineGroups, rng |-> inner.rng]

\* The last group pushed after the loop: the far border.
closeGroups(inner, columnCount) ==
  [lineGroups |-> Append(inner.lineGroups, borderLines(columnCount)), rng |-> inner.rng]

buildDistributions(rowCount, columnCount, rng) ==
  closeGroups(sampleGroups(<<borderLines(columnCount)>>, rng, rowCount, columnCount),
              columnCount)

\* ------------------------------------------------------------------------
\* Geometry assembler
\* ------------------------------------------------------------------------

\* fmt: Number(value.toFixed(2)), the value rounded to hundredths; value is a
\* numerator over den and the result counts hundredths.
fmt(value, den) ==
  (value \div den) * 100 + ((value % den) * 200 + den) \div (2 * den)

transposePoint(point) == <<point[2], point[1]>>

\* [(x + offsetX) * columnWidth, (y + offsetY) * rowHeight]; point is over
\* NormDen, columnWidth and rowHeight are multiples of NormDen.
offsetPoint(point, offsetX, offsetY, columnWidth, rowHeight) ==
  << (point[1] + offsetX * NormDen) * (columnWidth \div NormDen),
     (point[2] + offsetY * NormDen) * (rowHeight \div NormDen) >>

\* The two callbacks buildPuzzleData hands to offsetPoints, as closures over
\* columnWidth and rowHeight: the one for the row edges offsets by (j, i),
\* the one for the column edges transposes and offsets by (i, j).
callOffset(offsetFn, point, i, j) ==
  IF offsetFn.transposed
  THEN offsetPoint(transposePoint(point), i, j, offsetFn.columnWidth, offsetFn.rowHeight)
  ELSE offsetPoint(point, j, i, offsetFn.columnWidth, offsetFn.rowHeight)

\* i and j are the 0-based indices the source's map callbacks receive.
offsetPoints(lineGroups, offsetFn) ==
  [i \in 1..Len(lineGroups) |->
     [j \in 1..Len(lineGroups[i]) |->
        [p \in 1..Len(lineGroups[i][j].points) |->
           callOffset(offsetFn, lineGroups[i][j].points[p], i - 1, j - 1)]]]

\* lineToPath: two points give "M a L b" with fmt-rounded coordinates; more
\* give the basis curve through the points, which is d3's and is kept as the
\* point list it is drawn from; an empty path is "".  Destructuring fewer
\* than two points throws.
lineToPath(points, xDen, yDen) ==
  IF Len(points) < 2 THEN [kind |-> "TypeError"]
  ELSE IF Len(points) = 2
  THEN [kind |-> "ML",
        a |-> <<fmt(points[1][1], xDen), fmt(points[1][2], yDen)>>,
        b |-> <<fmt(points[2][1], xDen), fmt(points[2][2], yDen)>>]
  ELSE [kind |-> "basis", points |-> points]

RECURSIVE flat(_)
flat(groups) == IF groups = <<>> THEN <<>> ELSE Head(groups) \o flat(Tail(groups))

\* The mark of a seed that is not a finite number (a call without one).
Undefined == -1

IsFinite(seed) == seed # Undefined

\* A build that draws from the engine's stream whatever seed it is given.
engineSeed(seed, mathRandom) == mathRandom

\* The seed the build's generator starts from.
buildSeed(seed, mathRandom) == IF IsFinite(seed) THEN seed ELSE mathRandom

\* A safety factor of 3.15 in place of 1.05.
tripledAmpPixels(amp, cellSize) == amp * (cellSize \div PxScale) * 63

\* amp * cellSize * safetyFactor: amp is over NormDen, cellSize a multiple of
\* PxScale = 20 * NormDen, and safetyFactor = 1.05 = 21 / 20.
ampPixels(amp, cellSize) == amp * (cellSize \div PxScale) * 21

\* edgeMeta.horizontal or edgeMeta.vertical from the sampled groups.
edgeMetaOf(lineGroups, cellSize) ==
  [i \in 1..Len(lineGroups) |->
     [j \in 1..Len(lineGroups[i]) |->
        [ampPx |-> ampPixels(lineGroups[i][j].amp, cellSize),
         sign |-> lineGroups[i][j].sign]]]

\* The rest of buildPuzzleData once both families of edges are sampled.
\* rowHeight is over PxDen(rows), columnWidth over PxDen(cols); calls is the
\* number of draws the build made (a ghost).
assemblePuzzle(width, height, rows, cols, rowsLines, columnsLines) ==
  LET rowHeight == height * PxScale
      columnWidth == width * PxScale
      rowsOff == [transposed |-> FALSE, columnWidth |-> columnWidth, rowHeight |-> rowHeight]
      colsOff == [transposed |-> TRUE, columnWidth |-> columnWidth, rowHeight |-> rowHeight]
      rowsOffset == offsetPoints(rowsLines.lineGroups, rowsOff)
      columnsOffset == offsetPoints(columnsLines.lineGroups, colsOff)
      allLines == flat(rowsOffset) \o flat(columnsOffset)
      drawn == [n \in 1..Len(allLines) |-> lineToPath(allLines[n], PxDen(cols), PxDen(rows))]
  IN  [paths |-> SelectSeq(drawn, LAMBDA p : p.kind # "empty"),
       edgeMeta |-> [horizontal |-> edgeMetaOf(rowsLines.lineGroups, rowHeight),
                     vertical |-> edgeMetaOf(columnsLines.lineGroups, columnWidth)],
       calls |-> columnsLines.rng.calls]

\* The column edges are sampled after the row edges, on the same generator.
sampleColumns(width, height, rows, cols, rowsLines) ==
  assemblePuzzle(width, height, rows, cols, rowsLines,
                 buildDistributions(cols, rows, rowsLines.rng))

\* buildPuzzleData.  mathRandom is what Math.floor(Math.random() * 1e9) yields
\* if it is evaluated.
buildPuzzleData(width, height, rows, cols, seed, mathRandom) ==
  sampleColumns(width, height, rows, cols,
                buildDistributions(rows, cols, createRng(buildSeed(seed, mathRandom))))

\* ------------------------------------------------------------------------
\* Safe-zone calculator
\* ------------------------------------------------------------------------

\* A null edgeMeta (the session's before a front image exists).
Null == [null |-> TRUE]

\* grid[i]?.[j] with the source's 0-based indices; a missing edge is
\* undefined, which the `edge &&` tests treat like an edge of sign 0.
NoEdge == [ampPx |-> 0, sign |-> 0]

EdgeAt(grid, i, j) ==
  IF i + 1 \in DOMAIN grid /\ j + 1 \in DOMAIN grid[i + 1] THEN grid[i + 1][j + 1] ELSE NoEdge

\* Math.floor(Math.min(cellWidth, cellHeight) * 0.14), in whole pixels;
\* cellWidth is over PxDen(cols), cellHeight over PxDen(rows).
floorOfMinSide(cellWidth, cellHeight, rows, cols, percent) ==
  IF cellWidth * rows <= cellHeight * cols
  THEN ((cellWidth \div 100) * percent) \div PxDen(cols)
  ELSE ((cellHeight \div 100) * percent) \div PxDen(rows)

\* basePadding as buildBackSvg and the text handler compute it.
basePaddingOf(cellWidth, cellHeight, rows, cols) ==
  Max(10, floorOfMinSide(cellWidth, cellHeight, rows, cols, 14))

\* An inset added whichever way the edge bulges.
tabInsetBothWays(edge, towards, maxInset) ==
  IF edge.sign # 0 THEN (IF edge.ampPx <= maxInset THEN edge.ampPx ELSE maxInset) ELSE 0

\* `if (edge && edge.sign > 0) inset += Math.min(edge.ampPx, maxInset)` for
\* towards = 1, and the `edge.sign < 0` form for towards = -1: the amount
\* added to the baseline inset.
tabInset(edge, towards, maxInset) ==
  IF edge.sign * towards > 0 THEN Min(edge.ampPx, maxInset) ELSE 0

\* The four insets of getSafeBox before the fallback: top and bottom over
\* PxDen(rows), left and right over PxDen(cols).
safeInsets(row, col, cellWidth, cellHeight, rows, cols, edgeMeta, basePadding) ==
  LET safePadding == IF IsFinite(basePadding) THEN basePadding
                     ELSE basePaddingOf(cellWidth, cellHeight, rows, cols)
      maxInsetX == (cellWidth \div 50) * 9
      maxInsetY == (cellHeight \div 50) * 9
      padX == safePadding * PxDen(cols)
      padY == safePadding * PxDen(rows)
      hasH == edgeMeta # Null
      hasV == edgeMeta # Null
  IN  [top |-> padY + (IF hasH /\ row > 0
                       THEN tabInset(EdgeAt(edgeMeta.horizontal, row, col), 1, maxInsetY)
                       ELSE 0),
       bottom |-> padY + (IF hasH /\ row < rows - 1
                          THEN tabInset(EdgeAt(edgeMeta.horizontal, row + 1, col), -1, maxInsetY)
                          ELSE 0),
       left |-> padX + (IF hasV /\ col > 0
                        THEN tabInset(EdgeAt(edgeMeta.vertical, col, row), 1, maxInsetX)
                        ELSE 0),
       right |-> padX + (IF hasV /\ col < cols - 1
                         THEN tabInset(EdgeAt(edgeMeta.vertical, col + 1, row), -1, maxInsetX)
                         ELSE 0)]

\* The span kept as the insets left it.
noFallback(lo, hi, base, size, den) == <<lo, hi>>

\* `if (hi - lo < 10) { lo = base + size * 0.1; hi = base + size * 0.9 }` on
\* one axis; den is the axis's denominator.
fallbackSpan(lo, hi, base, size, den) ==
  IF hi - lo < 10 * den
  THEN <<base + size \div 10, base + (size \div 10) * 9>>
  ELSE <<lo, hi>>

\* A safe box that falls back on both axes as soon as one is below 10 px.
safeBoxBothAxes(row, col, cellWidth, cellHeight, rows, cols, edgeMeta, basePadding) ==
  LET leftBase == col * cellWidth
      topBase == row * cellHeight
      inset == safeInsets(row, col, cellWidth, cellHeight, rows, cols, edgeMeta, basePadding)
      small == \/ cellWidth - inset.left - inset.right < 10 * PxDen(cols)
               \/ cellHeight - inset.top - inset.bottom < 10 * PxDen(rows)
      x == IF small THEN <<leftBase + cellWidth \div 10, leftBase + (cellWidth \div 10) * 9>>
           ELSE <<leftBase + inset.left, leftBase + cellWidth - inset.right>>
      y == IF small THEN <<topBase + cellHeight \div 10, topBase + (cellHeight \div 10) * 9>>
           ELSE <<topBase + inset.top, topBase + cellHeight - inset.bottom>>
  IN  [left |-> x[1], right |-> x[2], top |-> y[1], bottom |-> y[2],
       width |-> x[2] - x[1], height |-> y[2] - y[1],
       centerX |-> x[1] + x[2], centerY |-> y[1] + y[2]]

\* getSafeBox.  left, right and width are over PxDen(cols); top, bottom and
\* height over PxDen(rows); centerX and centerY over twice that.
getSafeBox(row, col, cellWidth, cellHeight, rows, cols, edgeMeta, basePadding) ==
  LET leftBase == col * cellWidth
      topBase == row * cellHeight
      inset == safeInsets(row, col, cellWidth, cellHeight, rows, cols, edgeMeta, basePadding)
      x == fallbackSpan(leftBase + inset.left, leftBase + cellWidth - inset.right,
                        leftBase, cellWidth, PxDen(cols))
      y == fallbackSpan(topBase + inset.top, topBase + cellHeight - inset.bottom,
                        topBase, cellHeight, PxDen(rows))
      width == x[2] - x[1]
      height == y[2] - y[1]
  IN  [left |-> x[1], right |-> x[2], top |-> y[1], bottom |-> y[2],
       width |-> width, height |-> height,
       centerX |-> 2 * x[1] + width, centerY |-> 2 * y[1] + height]

\* ------------------------------------------------------------------------
\* Text layout engine.  A text is a sequence of one-character strings; a
\* pixel size handed to the engine is a rational <<numerator, denominator>>.
\* ------------------------------------------------------------------------

VARIABLES
  textToSvg,   \* the font-metrics capability: Null, or the loaded font
  fitCall,     \* the arguments of the fitTextToCell call under study
  fitResult,   \* what that call returned, Null before it ran
  pspec,       \* the puzzle under study: width, height, rows, cols
  geometry,    \* buildPuzzleData for that puzzle, by <<seed, mathRandom>>
  built,       \* every build made so far: its seed and what it returned
  cache,       \* the paths and edgeMeta the latest build left (the session's)
  boxes,       \* the latest sweep of getSafeBox over the cells, Null before
  rewriteCall, \* the arguments of the autoRewriteFact call under study
  rewriteResult, \* what that call returned, Null before it ran
  mirrorCall,  \* the facts, rows and cols of the mirrorFacts call under study
  mirrored,    \* what that call returned, Null before it ran
  mirroredBack, \* mirrorFacts of what it returned, Null before it ran
  backCells,   \* the text buildBackSvg's loop draws in each cell, Null before
  objects,     \* every session object alive: createSession's records
  sessions,    \* the Map: the object held under the user's key, 0 when none
  running,     \* the handler runs suspended at an await, in order of arrival
  latest,      \* the latest step: its handler, session, replies and render
  updates,     \* the number of updates received so far
  buildCall,   \* the arguments of the buildPuzzleData call under study
  buildResult, \* what that call returned or threw, Null before it ran
  pathCall,    \* the edges handed to lineToPath, as buildPuzzleData maps them
  pathResult,  \* the paths that gave, or what it threw, Null before it ran
  stream,      \* the generator under study: its seed and the closure's state
  draw,        \* the latest call made on it and what it returned, Null before
  editorCall,  \* the query parameters the editor page was opened with
  editorDrawn  \* the cut-lines the editor drew and the bot's for them, Null before

mirrorVars == <<mirrorCall, mirrored, mirroredBack, backCells>>

botVars == <<objects, sessions, running, latest, updates>>

streamVars == <<stream, draw>>

editorVars == <<editorCall, editorDrawn>>

coreVars == <<buildCall, buildResult, pathCall, pathResult, streamVars, editorVars>>

vars == <<textToSvg, fitCall, fitResult, pspec, geometry, built, cache, boxes,
          rewriteCall, rewriteResult, mirrorVars, botVars, coreVars>>

\* No autoRewriteFact call is under study.
NoRewrite == rewriteCall = Null /\ rewriteResult = Null

\* No mirrorFacts call is under study.
NoMirror == mirrorCall = Null /\ mirrored = Null /\ mirroredBack = Null /\ backCells = Null

\* No call of the geometry core is under study.
NoCall == buildCall = Null /\ buildResult = Null /\ pathCall = Null /\ pathResult = Null

\* No generator is under study.
NoStream == stream = Null /\ draw = Null

\* No editor page is under study.
NoEditor == editorCall = Null /\ editorDrawn = Null

NoCore == NoCall /\ NoStream /\ NoEditor

\* The bot has not been launched.
NoBot == objects = <<>> /\ sessions = 0 /\ running = <<>> /\ latest = Null /\ updates = 0

MIN_FONT_SIZE == 12

MAX_FONT_SIZE == 28

MAX_TEXT_LINES == 3

\* The characters \s matches, among those the texts under study use.
Whitespace == {" ", "\n"}

IsSpace(ch) == ch \in Whitespace

\* text.replace(/\s+/g, " "): every run of whitespace becomes one space.
RECURSIVE collapseSpaces(_)
collapseSpaces(text) ==
  IF text = <<>> THEN <<>>
  ELSE IF IsSpace(Head(text))
  THEN IF Len(text) > 1 /\ IsSpace(text[2])
       THEN collapseSpaces(Tail(text))
       ELSE <<" ">> \o collapseSpaces(Tail(text))
  ELSE <<Head(text)>> \o collapseSpaces(Tail(text))

\* String.prototype.trim.
RECURSIVE trim(_)
trim(text) ==
  IF text = <<>> THEN <<>>
  ELSE IF IsSpace(Head(text)) THEN trim(Tail(text))
  ELSE IF IsSpace(text[Len(text)]) THEN trim(SubSeq(text, 1, Len(text) - 1))
  ELSE text

\* text.split(" "): the pieces between single spaces (an empty text gives one
\* empty piece).
RECURSIVE splitOnSpace(_, _)
splitOnSpace(text, piece) ==
  IF text = <<>> THEN <<piece>>
  ELSE IF Head(text) = " " THEN <<piece>> \o splitOnSpace(Tail(text), <<>>)
  ELSE splitOnSpace(Tail(text), Append(piece, Head(text)))

\* lines.join(" ").
RECURSIVE joinWithSpace(_)
joinWithSpace(lines) ==
  IF lines = <<>> THEN <<>>
  ELSE IF Len(lines) = 1 THEN lines[1]
  ELSE lines[1] \o <<" ">> \o joinWithSpace(Tail(lines))

RECURSIVE SumAdvance(_, _)
SumAdvance(font, text) ==
  IF text = <<>> THEN 0 ELSE font.advance[Head(text)] + SumAdvance(font, Tail(text))

\* What a call that threw leaves in place of a result.
Thrown == [exception |-> "Error"]

IsThrown(result) == "exception" \in DOMAIN result

\* textToSvg.getMetrics throws: the capability is loaded and its measurement
\* call fails.  measureTextWidth has no handler, so its caller sees the throw.
metricsThrow == textToSvg # Null /\ textToSvg.throws

\* measureTextWidth, in tenths of a pixel: without the capability
\* text.length * fontSize * 0.6; with it the font's metrics.width, the glyph
\* advances (in tenths of an em) times fontSize, and 0 when that is falsy.
measureTextWidth(text, fontSize) ==
  IF textToSvg = Null THEN Len(text) * fontSize * 6
  ELSE SumAdvance(textToSvg, text) * fontSize

\* a / b <= c / d for b, d > 0, by integer parts and then reciprocal
\* remainders, so that no product leaves the integer range.
RECURSIVE RatLeq(_, _, _, _)
RatLeq(a, b, c, d) ==
  LET qa == a \div b
      qc == c \div d
      ra == a % b
      rc == c % d
  IN  IF qa # qc THEN qa < qc
      ELSE IF ra = 0 THEN TRUE
      ELSE IF rc = 0 THEN FALSE
      ELSE RatLeq(d, rc, b, ra)

RatMin(x, y) == IF RatLeq(x[1], x[2], y[1], y[2]) THEN x ELSE y

\* Math.floor(x * p / q) for a rational x >= 0 and integers p >= 0, q > 0.
FloorScaled(x, p, q) ==
  ((x[1] \div x[2]) * p + ((x[1] % x[2]) * p) \div x[2]) \div q

\* Math.max(10, cellWidth - padding * 2), over cellWidth's denominator.
maxWidthOf(cellWidth, padding) ==
  <<Max(10 * cellWidth[2], cellWidth[1] - 2 * padding * cellWidth[2]), cellWidth[2]>>

\* measureTextWidth(text, fontSize) <= maxWidth.
FitsWidth(text, fontSize, maxWidth) ==
  RatLeq(measureTextWidth(text, fontSize), 10, maxWidth[1], maxWidth[2])

\* The loop of wrapTextByWidth over the words still to place.
RECURSIVE wrapWords(_, _, _, _, _)
wrapWords(words, lines, current, maxWidth, fontSize) ==
  IF words = <<>>
  THEN [lines |-> IF current # <<>> THEN Append(lines, current) ELSE lines,
        truncated |-> FALSE, reason |-> "none"]
  ELSE IF metricsThrow THEN Thrown
  ELSE LET word == Head(words)
           next == IF current # <<>> THEN current \o <<" ">> \o word ELSE word
           closed == IF current # <<>> THEN Append(lines, current) ELSE lines
       IN  IF FitsWidth(next, fontSize, maxWidth)
           THEN wrapWords(Tail(words), lines, next, maxWidth, fontSize)
           ELSE IF FitsWidth(word, fontSize, maxWidth)
           THEN wrapWords(Tail(words), closed, word, maxWidth, fontSize)
           ELSE [lines |-> Append(closed, word), truncated |-> TRUE,
                 reason |-> "word_too_long"]

\* The wrap without its early return for an empty cleaned text.
wrapWithoutEmptyCase(text, maxWidth, fontSize) ==
  wrapWords(splitOnSpace(trim(collapseSpaces(text)), <<>>), <<>>, <<>>, maxWidth, fontSize)

wrapTextByWidth(text, maxWidth, fontSize) ==
  LET cleaned == trim(collapseSpaces(text))
  IN  IF cleaned = <<>>
      THEN [lines |-> << <<>> >>, truncated |-> FALSE, reason |-> "none"]
      ELSE wrapWords(splitOnSpace(cleaned, <<>>), <<>>, <<>>, maxWidth, fontSize)

\* A pass that caps the lines at MAX_TEXT_LINES only.
layoutWithoutHeightCap(text, cellWidth, cellHeight, padding, fontSize) ==
  LET wrapped == wrapTextByWidth(text, maxWidthOf(cellWidth, padding), fontSize)
      truncated == Len(wrapped.lines) > MAX_TEXT_LINES
  IN  IF IsThrown(wrapped) THEN Thrown
      ELSE [lines |-> IF truncated THEN SubSeq(wrapped.lines, 1, MAX_TEXT_LINES)
                      ELSE wrapped.lines,
            truncated |-> truncated,
            fontSize |-> fontSize,
            lineHeight |-> <<fontSize * 6, 5>>,
            maxLines |-> MAX_TEXT_LINES,
            maxChars |-> 0]

\* One pass of the font-size loop of fitTextToCell: the layout at fontSize.
\* lineHeight = fontSize * 1.2 is the rational <<fontSize * 6, 5>>.
layoutAt(text, cellWidth, cellHeight, padding, fontSize) ==
  LET availHeight == cellHeight[1] - 2 * padding * cellHeight[2]
      heightLines == Max(1, (5 * availHeight) \div (6 * fontSize * cellHeight[2]))
      maxLines == Max(1, Min(heightLines, MAX_TEXT_LINES))
      maxWidth == maxWidthOf(cellWidth, padding)
      wrapped == wrapTextByWidth(text, maxWidth, fontSize)
      truncated == Len(wrapped.lines) > maxLines
  IN  IF IsThrown(wrapped) THEN Thrown
      ELSE [lines |-> IF truncated THEN SubSeq(wrapped.lines, 1, maxLines) ELSE wrapped.lines,
            truncated |-> truncated,
            fontSize |-> fontSize,
            lineHeight |-> <<fontSize * 6, 5>>,
            maxLines |-> maxLines,
            maxChars |-> 0]

\* A result of the font-size loop with the sizes the loop tried, in order (a
\* ghost, read only by the properties).
withTried(result, tried) ==
  IF IsThrown(result) THEN [exception |-> result.exception, tried |-> tried]
  ELSE [lines |-> result.lines, truncated |-> result.truncated,
        fontSize |-> result.fontSize, lineHeight |-> result.lineHeight,
        maxLines |-> result.maxLines, maxChars |-> result.maxChars, tried |-> tried]

\* The result of the later passes, after a pass at fontSize.
triedBefore(fontSize, rest) == withTried(rest, <<fontSize>> \o rest.tried)

\* A loop that steps the font size down by 2.
RECURSIVE fitLoopByTwo(_, _, _, _, _, _, _, _)
fitLoopByTwo(text, cellWidth, cellHeight, padding, scaledMin, fontSize, attempt, last) ==
  IF fontSize >= scaledMin /\ attempt < 40
  THEN LET this == layoutAt(text, cellWidth, cellHeight, padding, fontSize)
       IN  IF IsThrown(this) THEN withTried(Thrown, <<fontSize>>)
           ELSE IF ~this.truncated THEN withTried(this, <<fontSize>>)
           ELSE triedBefore(fontSize,
                            fitLoopByTwo(text, cellWidth, cellHeight, padding, scaledMin,
                                         fontSize - 2, attempt + 1, this))
  ELSE IF last # Null THEN withTried([last EXCEPT !.truncated = TRUE], <<>>)
  ELSE withTried([lines |-> <<text>>, truncated |-> TRUE, fontSize |-> MIN_FONT_SIZE,
                  lineHeight |-> <<MIN_FONT_SIZE * 6, 5>>, maxLines |-> 1, maxChars |-> 4],
                 <<>>)

\* while (fontSize >= scaledMin && attempt < 40): the first layout that is
\* not truncated, else the last one tried marked truncated, else (no pass
\* ran) the one-line default.
RECURSIVE fitLoop(_, _, _, _, _, _, _, _)
fitLoop(text, cellWidth, cellHeight, padding, scaledMin, fontSize, attempt, last) ==
  IF fontSize >= scaledMin /\ attempt < 40
  THEN LET this == layoutAt(text, cellWidth, cellHeight, padding, fontSize)
       IN  IF IsThrown(this) THEN withTried(Thrown, <<fontSize>>)
           ELSE IF ~this.truncated THEN withTried(this, <<fontSize>>)
           ELSE triedBefore(fontSize,
                            fitLoop(text, cellWidth, cellHeight, padding, scaledMin,
                                    fontSize - 1, attempt + 1, this))
  ELSE IF last # Null THEN withTried([last EXCEPT !.truncated = TRUE], <<>>)
  ELSE withTried([lines |-> <<text>>, truncated |-> TRUE, fontSize |-> MIN_FONT_SIZE,
                  lineHeight |-> <<MIN_FONT_SIZE * 6, 5>>, maxLines |-> 1, maxChars |-> 4],
                 <<>>)

\* The padding fitTextToCell works with, in whole pixels.
paddingOf(cellWidth, cellHeight, paddingOverride) ==
  IF IsFinite(paddingOverride) THEN paddingOverride
  ELSE Max(8, FloorScaled(RatMin(cellWidth, cellHeight), 8, 100))

\* A search that starts at the minimum size.
fitFromMinimum(text, cellWidth, cellHeight, paddingOverride, fontScale) ==
  fitLoop(text, cellWidth, cellHeight, paddingOf(cellWidth, cellHeight, paddingOverride),
          Max(10, MIN_FONT_SIZE), Max(10, MIN_FONT_SIZE), 0, Null)

\* fitTextToCell.  paddingOverride is whole pixels or Undefined; fontScale is
\* in hundredths.
fitTextToCell(text, cellWidth, cellHeight, paddingOverride, fontScale) ==
  LET minSide == RatMin(cellWidth, cellHeight)
      padding == paddingOf(cellWidth, cellHeight, paddingOverride)
      scale == IF IsFinite(fontScale) THEN fontScale ELSE 100
      scaledMin == Max(10, MIN_FONT_SIZE)
      scaledMax == Max(scaledMin, (MAX_FONT_SIZE * scale) \div 100)
      fontSize == Min(scaledMax, Max(scaledMin, FloorScaled(minSide, 2 * scale, 1000)))
  IN  fitLoop(text, cellWidth, cellHeight, padding, scaledMin, fontSize, 0, Null)

\* ------------------------------------------------------------------------
\* Geometry and safe zones as a state machine: builds of one puzzle with any
\* seeds, in any order, and sweeps of getSafeBox over its cells.
\* ------------------------------------------------------------------------

\* SIZE_OPTIONS goes up to 7 columns.
MaxGrid == 7

GridSides == 1..MaxGrid

\* <<width, height>> in pixels.
PuzzleSizes == { <<100, 100>>, <<1000, 700>> }

Seeds == {42, 123456789}

\* What Math.floor(Math.random() * 1e9) may yield.
MathRandoms == {7, 42}

PuzzleSpecs ==
  { [width |-> s[1], height |-> s[2], rows |-> r, cols |-> c] :
      s \in PuzzleSizes, r \in GridSides, c \in GridSides }

IdleFit == [text |-> <<>>, cellWidth |-> <<10, 1>>, cellHeight |-> <<10, 1>>,
            paddingOverride |-> Undefined, fontScale |-> 100]

\* The puzzle is chosen and buildPuzzleData is tabulated for it once, so that
\* a build made again is not computed again.
GeometryInit ==
  /\ pspec \in PuzzleSpecs
  /\ geometry = [a \in (Seeds \cup {Undefined}) \X MathRandoms |->
                   buildPuzzleData(pspec.width, pspec.height, pspec.rows, pspec.cols,
                                   a[1], a[2])]
  /\ built = {}
  /\ cache = Null
  /\ boxes = Null
  /\ textToSvg = Null
  /\ fitCall = IdleFit
  /\ fitResult = Null
  /\ NoRewrite
  /\ NoMirror
  /\ NoBot
  /\ NoCore

\* generateFrontImage's call: a build of the puzzle with some seed, whose
\* paths and edgeMeta the session keeps.  mathRandom is the state of the
\* engine's own random stream at the call.  The build it replaces joins the
\* earlier ones, and the sweep made over the replaced edgeMeta is dropped.
BuildPuzzle(seed, mathRandom) ==
  /\ built' = IF cache = Null THEN built ELSE built \cup {cache}
  /\ cache' = [seed |-> seed, data |-> geometry[<<seed, mathRandom>>]]
  /\ boxes' = Null
  /\ UNCHANGED <<pspec, geometry, textToSvg, fitCall, fitResult, rewriteCall, rewriteResult, mirrorVars, botVars, coreVars>>

CellsOf(rows, cols) == (0..(rows - 1)) \X (0..(cols - 1))

\* buildBackSvg's loop over the cells: getSafeBox for each, from the cached
\* edgeMeta (null when there is none) and the callers' basePadding.  inset
\* keeps the four insets each call worked out before its fallback.
SafeBoxes ==
  LET cellWidth == pspec.width * PxScale
      cellHeight == pspec.height * PxScale
      basePadding == basePaddingOf(cellWidth, cellHeight, pspec.rows, pspec.cols)
      edgeMeta == IF cache = Null THEN Null ELSE cache.data.edgeMeta
  IN  /\ boxes = Null
      /\ boxes' = [edgeMeta |-> edgeMeta,
                   basePadding |-> basePadding,
                   inset |-> [cell \in CellsOf(pspec.rows, pspec.cols) |->
                                safeInsets(cell[1], cell[2], cellWidth, cellHeight,
                                           pspec.rows, pspec.cols, edgeMeta, basePadding)],
                   box |-> [cell \in CellsOf(pspec.rows, pspec.cols) |->
                              getSafeBox(cell[1], cell[2], cellWidth, cellHeight,
                                         pspec.rows, pspec.cols, edgeMeta, basePadding)]]
      /\ UNCHANGED <<pspec, geometry, built, cache, textToSvg, fitCall, fitResult,
                     rewriteCall, rewriteResult, mirrorVars, botVars, coreVars>>

GeometryNext ==
  \/ \E seed \in Seeds \cup {Undefined}, mathRandom \in MathRandoms : BuildPuzzle(seed, mathRandom)
  \/ SafeBoxes

GeometrySpec == GeometryInit /\ [][GeometryNext]_vars

\* ------------------------------------------------------------------------
\* The text layout engine as a state machine: one call of fitTextToCell on
\* a text, a rectangle and a configuration drawn from bounded sets.
\* ------------------------------------------------------------------------

MaxTextLen == 6

Chars == {"a"} \cup Whitespace

\* Every character of the texts under study, those of the reducer included.
Glyphs == Chars \cup {"b", "t", "h", "e", "T", ".", ","}

Texts == UNION { [1..n -> Chars] : n \in 0..MaxTextLen }

\* A loaded font: the advance of each glyph in tenths of an em, and
\* throws: whether its getMetrics call fails.
Fonts == { [advance |-> [ch \in Glyphs |-> IF ch = "a" THEN 5 ELSE 3], throws |-> t] :
             t \in BOOLEAN }

\* <<cellWidth, cellHeight>>, each a rational number of pixels.
Rects == { << <<15, 2>>, <<20, 1>> >>, << <<30, 1>>, <<70, 1>> >>,
           << <<70, 1>>, <<20, 1>> >>, << <<70, 1>>, <<70, 1>> >> }

Paddings == {Undefined, 4, 22}

\* fontScale in hundredths: the default and FONT_SCALE_BY_COUNT's smallest.
FontScales == {100, 60}

FitInit ==
  /\ textToSvg \in {Null} \cup Fonts
  /\ fitCall \in [text : Texts, cellWidth : {r[1] : r \in Rects},
                  cellHeight : {r[2] : r \in Rects},
                  paddingOverride : Paddings, fontScale : FontScales]
  /\ <<fitCall.cellWidth, fitCall.cellHeight>> \in Rects
  /\ fitResult = Null
  /\ pspec = Null
  /\ geometry = Null
  /\ built = {}
  /\ cache = Null
  /\ boxes = Null
  /\ NoRewrite
  /\ NoMirror
  /\ NoBot
  /\ NoCore

\* The call.
FitText ==
  /\ fitResult = Null
  /\ fitResult' = fitTextToCell(fitCall.text, fitCall.cellWidth, fitCall.cellHeight,
                                fitCall.paddingOverride, fitCall.fontScale)
  /\ UNCHANGED <<textToSvg, fitCall, pspec, geometry, built, cache, boxes,
                 rewriteCall, rewriteResult, mirrorVars, botVars, coreVars>>

FitNext == FitText

FitSpec == FitInit /\ [][FitNext]_vars

\* ------------------------------------------------------------------------
\* The auto-rewrite reducer.
\* ------------------------------------------------------------------------

\* getTextPadding, in whole pixels.
getTextPadding(box) == Max(4, FloorScaled(RatMin(box.width, box.height), 8, 100))

\* text.split(/[...]+/) for a character class: the pieces between runs of
\* its characters, the empty piece before a leading run and after a trailing
\* one included.
RECURSIVE splitOnRuns(_, _, _)
splitOnRuns(text, class, piece) ==
  IF text = <<>> THEN <<piece>>
  ELSE IF Head(text) \in class
  THEN IF Len(text) > 1 /\ text[2] \in class
       THEN splitOnRuns(Tail(text), class, piece)
       ELSE <<piece>> \o splitOnRuns(Tail(text), class, <<>>)
  ELSE splitOnRuns(Tail(text), class, Append(piece, Head(text)))

\* .map((part) => part.trim()).filter(Boolean)
RECURSIVE trimmedParts(_)
trimmedParts(parts) ==
  IF parts = <<>> THEN <<>>
  ELSE IF trim(Head(parts)) = <<>> THEN trimmedParts(Tail(parts))
  ELSE <<trim(Head(parts))>> \o trimmedParts(Tail(parts))

splitSentences(text) == trimmedParts(splitOnRuns(text, {".", "!", "?"}, <<>>))

\* text.split(/[,:;]+/).map((part) => part.trim()).filter(Boolean)
splitClauses(text) == trimmedParts(splitOnRuns(text, {",", ":", ";"}, <<>>))

\* The entries of STOPWORDS written in the characters of the texts under
\* study (the Latin ones).
STOPWORDS ==
  { <<"t", "h", "e">>, <<"a">>, <<"a", "n">>, <<"o", "f">>, <<"t", "o">>, <<"i", "n">>,
    <<"o", "n">>, <<"f", "o", "r">>, <<"w", "i", "t", "h">>, <<"a", "n", "d">>,
    <<"o", "r">>, <<"b", "u", "t">>, <<"i", "s">>, <<"a", "r", "e">>, <<"w", "a", "s">>,
    <<"w", "e", "r", "e">>, <<"b", "e">>, <<"b", "e", "e", "n">>, <<"a", "s">>,
    <<"a", "t">> }

\* String.prototype.toLowerCase, over the characters under study.
toLowerCase(word) == [i \in 1..Len(word) |-> IF word[i] = "T" THEN "t" ELSE word[i]]

\* words.filter(...): the words longer than 2 that are no stopword.
RECURSIVE filterWords(_)
filterWords(words) ==
  IF words = <<>> THEN <<>>
  ELSE IF Len(Head(words)) > 2 /\ toLowerCase(Head(words)) \notin STOPWORDS
  THEN <<Head(words)>> \o filterWords(Tail(words))
  ELSE filterWords(Tail(words))

\* text.split(/\s+/).filter(Boolean), filtered.
filteredWords(text) == filterWords(trimmedParts(splitOnRuns(text, Whitespace, <<>>)))

\* A reducer that takes the filtered text whatever its length.
ratioIgnored(candidate, text) == TRUE

\* candidate.length / Math.max(1, text.length) >= 0.6
ratioKept(candidate, text) == 10 * Len(candidate) >= 6 * Max(1, Len(text))

\* The candidates of the last step: the filtered text when any word is left
\* and it keeps 60% of the length, else none.
filteredCandidates(text) ==
  IF filteredWords(text) = <<>> THEN <<>>
  ELSE IF ratioKept(joinWithSpace(filteredWords(text)), text)
  THEN <<joinWithSpace(filteredWords(text))>>
  ELSE <<>>

tryFit(candidate, safeBox, fontScale) ==
  fitTextToCell(candidate, safeBox.width, safeBox.height, getTextPadding(safeBox), fontScale)

\* A loop that returns the last of the candidates that fits.
RECURSIVE lastFitting(_, _, _)
lastFitting(candidates, safeBox, fontScale) ==
  IF candidates = <<>> THEN Null
  ELSE IF IsThrown(tryFit(candidates[Len(candidates)], safeBox, fontScale)) THEN Thrown
  ELSE IF ~tryFit(candidates[Len(candidates)], safeBox, fontScale).truncated
  THEN [text |-> candidates[Len(candidates)], changed |-> TRUE,
        fit |-> tryFit(candidates[Len(candidates)], safeBox, fontScale)]
  ELSE lastFitting(SubSeq(candidates, 1, Len(candidates) - 1), safeBox, fontScale)

RECURSIVE firstFitting(_, _, _)
RECURSIVE returnOrNext(_, _, _, _)

\* for (const candidate of candidates) if (tryFit(candidate).ok) return ...:
\* the result for the first candidate that fits, Null when the loop ends
\* without a return.
firstFitting(candidates, safeBox, fontScale) ==
  IF candidates = <<>> THEN Null
  ELSE returnOrNext(candidates, tryFit(Head(candidates), safeBox, fontScale),
                    safeBox, fontScale)

returnOrNext(candidates, fit, safeBox, fontScale) ==
  IF IsThrown(fit) THEN Thrown
  ELSE IF ~fit.truncated THEN [text |-> Head(candidates), changed |-> TRUE, fit |-> fit]
  ELSE firstFitting(Tail(candidates), safeBox, fontScale)

\* A failure record without its failed flag.
afterFilteredUnflagged(text, safeBox, fontScale, whole, found) ==
  IF found # Null THEN found
  ELSE [text |-> text, changed |-> FALSE, fit |-> whole]

\* After the filtered text was tried (found is its result): the failure
\* record when it did not fit or was not tried.
afterFiltered(text, safeBox, fontScale, whole, found) ==
  IF found # Null THEN found
  ELSE [text |-> text, changed |-> FALSE, fit |-> whole, failed |-> TRUE]

\* After the loop over the clauses (found is its result): the filtered text.
afterClauseLoop(text, safeBox, fontScale, whole, found) ==
  IF found # Null THEN found
  ELSE afterFiltered(text, safeBox, fontScale, whole,
                    firstFitting(filteredCandidates(text), safeBox, fontScale))

\* After the loop over the sentences (found is its result): the clauses.
afterSentenceLoop(text, safeBox, fontScale, whole, found) ==
  IF found # Null THEN found
  ELSE afterClauseLoop(text, safeBox, fontScale, whole,
                      firstFitting(splitClauses(text), safeBox, fontScale))

\* autoRewriteFact once the original text was tried; whole is tryFit(text).fit.
rewriteFrom(text, safeBox, fontScale, whole) ==
  IF IsThrown(whole) THEN Thrown
  ELSE IF ~whole.truncated THEN [text |-> text, changed |-> FALSE, fit |-> whole]
  ELSE afterSentenceLoop(text, safeBox, fontScale, whole,
                     firstFitting(splitSentences(text), safeBox, fontScale))

autoRewriteFact(text, safeBox, fontScale) ==
  rewriteFrom(text, safeBox, fontScale, tryFit(text, safeBox, fontScale))

\* ------------------------------------------------------------------------
\* The reducer as a state machine: one call of autoRewriteFact on a text of
\* up to MaxWords words, a safe box and a font-metrics capability.
\* ------------------------------------------------------------------------

MaxWords == 4

Words == { <<"a">>, <<"a", "a", "a">>, <<"t", "h", "e">>, <<"T", "h", "e">>,
           <<"b", ".">>, <<"b", ",">> }

RewriteTexts == { joinWithSpace(ws) : ws \in UNION { [1..n -> Words] : n \in 0..MaxWords } }

\* Safe boxes: one line of three characters, and three lines.
SafeBoxSizes == { [width |-> <<30, 1>>, height |-> <<20, 1>>],
                  [width |-> <<30, 1>>, height |-> <<70, 1>>] }

RewriteInit ==
  /\ textToSvg \in {Null} \cup Fonts
  /\ rewriteCall \in [text : RewriteTexts, safeBox : SafeBoxSizes, fontScale : {100}]
  /\ rewriteResult = Null
  /\ fitCall = IdleFit
  /\ fitResult = Null
  /\ pspec = Null
  /\ geometry = Null
  /\ built = {}
  /\ cache = Null
  /\ boxes = Null
  /\ NoMirror
  /\ NoBot
  /\ NoCore

\* The call.
RewriteFact ==
  /\ rewriteResult = Null
  /\ rewriteResult' = autoRewriteFact(rewriteCall.text, rewriteCall.safeBox,
                                      rewriteCall.fontScale)
  /\ UNCHANGED <<textToSvg, fitCall, fitResult, pspec, geometry, built, cache, boxes,
                 rewriteCall, mirrorVars, botVars, coreVars>>

RewriteNext == RewriteFact

RewriteSpec == RewriteInit /\ [][RewriteNext]_vars

\* ------------------------------------------------------------------------
\* Mirroring.  A list of facts is a sequence whose element i + 1 is the
\* array's element i; a slot never assigned holds Hole.
\* ------------------------------------------------------------------------

\* The value of an array slot that was never assigned (undefined).
Hole == <<"undefined">>

\* array[index], undefined past the end.
arrayAt(array, index) == IF index < Len(array) THEN array[index + 1] ELSE Hole

\* value || "".
orEmpty(value) == IF value = Hole THEN <<>> ELSE value

\* array[index] = value, which lengthens the array when index is past its end.
arraySet(array, index, value) ==
  IF index < Len(array) THEN [array EXCEPT ![index + 1] = value]
  ELSE array \o [k \in 1..(index - Len(array)) |-> Hole] \o <<value>>

\* A remap that shifts each fact one column to the right, around the row.
shiftedIndex(r, c, rows, cols) == r * cols + ((c + 1) % cols)

\* A remap that flips the rows, not the columns.
flippedRowIndex(r, c, rows, cols) == (rows - 1 - r) * cols + c

\* const mirrorIndex = r * cols + (cols - 1 - c)
mirrorIndexOf(r, c, rows, cols) == r * cols + (cols - 1 - c)

\* The two loops of mirrorFacts: index = r * cols + c runs over the cells row
\* by row.
RECURSIVE mirrorLoop(_, _, _, _, _)
mirrorLoop(result, facts, rows, cols, index) ==
  IF index >= rows * cols THEN result
  ELSE mirrorLoop(arraySet(result, mirrorIndexOf(index \div cols, index % cols, rows, cols),
                           orEmpty(arrayAt(facts, index))),
                  facts, rows, cols, index + 1)

\* mirrorFacts: new Array(facts.length), then the loops.
mirrorFacts(facts, rows, cols) ==
  mirrorLoop([i \in 1..Len(facts) |-> Hole], facts, rows, cols, 0)

\* The loop of buildBackSvg over the cells: the text it draws in cell
\* <<r, c>>, mirrored[r * cols + c] || "", empty when it draws none.
drawnTexts(mirroredFacts, rows, cols) ==
  [cell \in CellsOf(rows, cols) |-> orEmpty(arrayAt(mirroredFacts, cell[1] * cols + cell[2]))]

\* What buildBackSvg draws for a list of facts.
backTexts(facts, rows, cols) == drawnTexts(mirrorFacts(facts, rows, cols), rows, cols)

\* ------------------------------------------------------------------------
\* Mirroring as a state machine: one grid, one list of facts, mirrored once,
\* mirrored back, and drawn.
\* ------------------------------------------------------------------------

MaxMirrorCols == 3

MirrorRows == 1..3

FactTexts == { <<"a">>, <<"b">> }

MirrorInit ==
  /\ mirrorCall \in UNION { [facts : UNION { [1..n -> FactTexts] : n \in 0..(r * c) },
                             rows : {r}, cols : {c}] :
                            r \in MirrorRows, c \in 1..MaxMirrorCols }
  /\ mirrored = Null
  /\ mirroredBack = Null
  /\ backCells = Null
  /\ textToSvg = Null
  /\ fitCall = IdleFit
  /\ fitResult = Null
  /\ pspec = Null
  /\ geometry = Null
  /\ built = {}
  /\ cache = Null
  /\ boxes = Null
  /\ NoRewrite
  /\ NoBot
  /\ NoCore

notMirror == <<textToSvg, fitCall, fitResult, pspec, geometry, built, cache, boxes,
               rewriteCall, rewriteResult, botVars, coreVars>>

\* mirrorFacts(facts, rows, cols)
Mirror ==
  /\ mirrored = Null
  /\ mirrored' = [facts |-> mirrorFacts(mirrorCall.facts, mirrorCall.rows, mirrorCall.cols)]
  /\ UNCHANGED <<mirrorCall, mirroredBack, backCells, notMirror>>

\* mirrorFacts(mirrorFacts(facts, rows, cols), rows, cols)
MirrorBack ==
  /\ mirrored # Null
  /\ mirroredBack = Null
  /\ mirroredBack' = [facts |-> mirrorFacts(mirrored.facts, mirrorCall.rows, mirrorCall.cols)]
  /\ UNCHANGED <<mirrorCall, mirrored, backCells, notMirror>>

\* buildBackSvg on the facts.
DrawBack ==
  /\ backCells = Null
  /\ backCells' = [texts |-> backTexts(mirrorCall.facts, mirrorCall.rows, mirrorCall.cols)]
  /\ UNCHANGED <<mirrorCall, mirrored, mirroredBack, notMirror>>

MirrorNext == Mirror \/ MirrorBack \/ DrawBack

MirrorSpec == MirrorInit /\ [][MirrorNext]_vars

\* ------------------------------------------------------------------------
\* Sessions and the text handler's work on one message.
\* ------------------------------------------------------------------------

\* A numeric field of a session that is null.
NullNumber == -2

\* The number a null operand of <, >=, / and * stands for.
ToNumber(value) == IF value = NullNumber THEN 0 ELSE value

\* photoFileId: null.
NoFile == "null"

\* puzzlePaths: null.
NoPaths == <<Null>>

\* createSession.  fontScale is in hundredths; the null seed is no finite
\* number, like a seed left out.
createSession ==
  [step |-> "await_photo", photoFileId |-> NoFile, rows |-> NullNumber,
   cols |-> NullNumber, count |-> NullNumber, width |-> NullNumber,
   height |-> NullNumber, facts |-> <<>>, seed |-> Undefined,
   puzzlePaths |-> NoPaths, edgeMeta |-> Null, fontScale |-> 100]

SIZE_OPTIONS ==
  << [count |-> 12, rows |-> 3, cols |-> 4], [count |-> 15, rows |-> 3, cols |-> 5],
     [count |-> 16, rows |-> 4, cols |-> 4], [count |-> 21, rows |-> 3, cols |-> 7] >>

\* FONT_SCALE_BY_COUNT, in hundredths.
FONT_SCALE_BY_COUNT == (12 :> 90) @@ (15 :> 75) @@ (16 :> 70) @@ (21 :> 60)

\* SIZE_OPTIONS.find((item) => item.count === count), Null when none.
findOption(count) ==
  IF \E i \in 1..Len(SIZE_OPTIONS) : SIZE_OPTIONS[i].count = count
  THEN SIZE_OPTIONS[CHOOSE i \in 1..Len(SIZE_OPTIONS) : SIZE_OPTIONS[i].count = count]
  ELSE Null

\* The code points with the property Extended_Pictographic, of which the
\* messages under study use one, written "emoji".
Pictographs == {"emoji"}

\* \p{L}, among the characters under study.
Letters == {"a", "b", "t", "h", "e", "T"}

\* The class [\p{L}\p{N}\s.,;:!?'"()\-] of sanitizeFact.
IsKept(ch) ==
  ch \in Letters \cup Whitespace \cup {".", ",", ";", ":", "!", "?", "'", "\"", "(", ")", "-"}

\* The two removals without the final whitespace collapse and trim.
sanitizeUncollapsed(raw) ==
  SelectSeq(SelectSeq(raw, LAMBDA ch : ch \notin Pictographs), IsKept)

sanitizeFact(raw) ==
  trim(collapseSpaces(SelectSeq(SelectSeq(raw, LAMBDA ch : ch \notin Pictographs), IsKept)))

PhotoFiles == {"photoA", "photoB"}

\* What normalizePhoto returns for each file: <<width, height>>.
PhotoDims == ("photoA" :> <<200, 150>>) @@ ("photoB" :> <<160, 120>>)

\* What Math.floor(Math.random() * 1e9) may yield in the photo handler.
SessionSeeds == {42}

\* The counts of the callback data: two buttons, and one no button carries.
TappedCounts == {12, 15, 13}

BuildKeys ==
  { <<d[1], d[2], SIZE_OPTIONS[o].rows, SIZE_OPTIONS[o].cols, seed>> :
      d \in {PhotoDims[f] : f \in PhotoFiles} \cup {<<0, 0>>},
      o \in {i \in 1..Len(SIZE_OPTIONS) : SIZE_OPTIONS[i].count \in TappedCounts},
      seed \in SessionSeeds \cup MathRandoms }

\* buildPuzzleData tabulated once for every build the handlers can make with
\* rows and cols set: <<width, height, rows, cols, seed>>, a null width or
\* height counting as 0.
SessionBuilds == [k \in BuildKeys |-> buildPuzzleData(k[1], k[2], k[3], k[4], k[5], k[5])]

\* buildPuzzleData on what a session holds.  With rows and cols null both
\* loops of buildDistributions run no pass and Array.from makes empty
\* borders: no path, and two empty groups in each family of edgeMeta.
builtFor(width, height, rows, cols, seed, mathRandom) ==
  IF rows = NullNumber \/ cols = NullNumber
  THEN [paths |-> <<>>,
        edgeMeta |-> [horizontal |-> << <<>>, <<>> >>, vertical |-> << <<>>, <<>> >>]]
  ELSE [paths |-> SessionBuilds[<<ToNumber(width), ToNumber(height), rows, cols,
                                  buildSeed(seed, mathRandom)>>].paths,
        edgeMeta |-> SessionBuilds[<<ToNumber(width), ToNumber(height), rows, cols,
                                     buildSeed(seed, mathRandom)>>].edgeMeta]

\* The safe box of the cell the next fact goes to (lines 877-879, 893-896),
\* its sides as rationals.
safeBoxFor(session, targetIndex) ==
  LET cellWidth == session.width * PxScale
      cellHeight == session.height * PxScale
      box == getSafeBox((targetIndex - 1) \div session.cols, (targetIndex - 1) % session.cols,
                        cellWidth, cellHeight, session.rows, session.cols, session.edgeMeta,
                        basePaddingOf(cellWidth, cellHeight, session.rows, session.cols))
  IN  [width |-> <<box.width, PxDen(session.cols)>>,
       height |-> <<box.height, PxDen(session.rows)>>]

RECURSIVE factLoop(_, _, _)

\* A loop that notes the fact that did not fit and goes on to the next line.
afterRewriteContinuing(session, rawLines, run, cleaned, rewrite) ==
  IF "failed" \notin DOMAIN rewrite /\ ~rewrite.fit.truncated
  THEN factLoop(session, Tail(rawLines),
                [run EXCEPT !.facts = Append(@, rewrite.text),
                            !.autoRewrites =
                               IF rewrite.text # cleaned
                               THEN Append(@, [index |-> Len(run.facts) + 1,
                                               from |-> cleaned, to |-> rewrite.text])
                               ELSE @])
  ELSE factLoop(session, Tail(rawLines),
                [run EXCEPT !.tooLong = [index |-> Len(run.facts) + 1, text |-> cleaned]])

\* Lines 900-909: the outcome of autoRewriteFact on a fact that did not fit.
afterRewrite(session, rawLines, run, cleaned, rewrite) ==
  IF "failed" \notin DOMAIN rewrite /\ ~rewrite.fit.truncated
  THEN factLoop(session, Tail(rawLines),
                [run EXCEPT !.facts = Append(@, rewrite.text),
                            !.autoRewrites =
                               IF rewrite.text # cleaned
                               THEN Append(@, [index |-> Len(run.facts) + 1,
                                               from |-> cleaned, to |-> rewrite.text])
                               ELSE @])
  ELSE [run EXCEPT !.tooLong = [index |-> Len(run.facts) + 1, text |-> cleaned]]

\* Lines 898-911: the fit of the sanitized fact in its safe box.
afterFit(session, rawLines, run, cleaned, safeBox, fit) ==
  IF fit.truncated
  THEN afterRewrite(session, rawLines, run, cleaned,
                    autoRewriteFact(cleaned, safeBox, session.fontScale))
  ELSE factLoop(session, Tail(rawLines), [run EXCEPT !.facts = Append(@, cleaned)])

placeFact(session, rawLines, run, cleaned, safeBox) ==
  afterFit(session, rawLines, run, cleaned, safeBox,
           fitTextToCell(cleaned, safeBox.width, safeBox.height, getTextPadding(safeBox),
                         session.fontScale))

\* Lines 886-896: a line that sanitizes to nothing ends the whole handler.
afterSanitize(session, rawLines, run, cleaned) ==
  IF cleaned = <<>> THEN [run EXCEPT !.rejected = TRUE]
  ELSE placeFact(session, rawLines,
                 [run EXCEPT !.hadSanitized = @ \/ cleaned # Head(rawLines)],
                 cleaned, safeBoxFor(session, Len(run.facts) + 1))

\* for (const rawLine of rawLines): run holds session.facts and the locals
\* hadSanitized, autoRewrites and tooLong; rejected marks the early return.
factLoop(session, rawLines, run) ==
  IF rawLines = <<>> \/ Len(run.facts) >= ToNumber(session.count) THEN run
  ELSE afterSanitize(session, rawLines, run, sanitizeFact(Head(rawLines)))

\* The handler's locals before the loop.
newRun(session) ==
  [facts |-> session.facts, hadSanitized |-> FALSE, autoRewrites |-> <<>>,
   tooLong |-> Null, rejected |-> FALSE]

\* text.split(/\n+/).map((line) => line.trim()).filter(Boolean)
rawLinesOf(text) == trimmedParts(splitOnRuns(text, {"\n"}, <<>>))

\* buildBackSvg: the paths it draws (the session's, or those of a build of
\* its own without a seed when the session has none), the text it puts in
\* each cell, and the arguments it was given.  seed is the session's at the
\* call, which buildBackSvg does not receive.
buildBackSvg(session, mathRandom) ==
  [lines |-> IF session.puzzlePaths # NoPaths THEN session.puzzlePaths
             ELSE builtFor(session.width, session.height, session.rows, session.cols,
                           Undefined, mathRandom).paths,
   ownBuild |-> session.puzzlePaths = NoPaths,
   texts |-> backTexts(session.facts, ToNumber(session.rows), ToNumber(session.cols)),
   width |-> session.width, height |-> session.height,
   rows |-> session.rows, cols |-> session.cols,
   edgeMeta |-> session.edgeMeta, fontScale |-> session.fontScale,
   seed |-> session.seed]

\* Lines 651-659: the fit of the text buildBackSvg draws in cell (r, c), in
\* that cell's safe box; render is what buildBackSvg was given.
drawnFit(render, r, c) ==
  LET safeBox == safeBoxFor(render, r * render.cols + c + 1)
  IN  fitTextToCell(render.texts[<<r, c>>], safeBox.width, safeBox.height,
                    getTextPadding(safeBox), render.fontScale)

\* formatFactsPrompt's reply.
promptOf(session) ==
  [kind |-> "facts_prompt", filled |-> Len(session.facts), count |-> session.count]

\* The replies of lines 914-924: the notice that characters were removed, and
\* the rewrites, of which .slice(0, 5) keeps the first five.
noticesOf(run) ==
  (IF run.hadSanitized THEN <<[kind |-> "sanitized"]>> ELSE <<>>)
  \o (IF Len(run.autoRewrites) > 0
      THEN <<[kind |-> "rewrites",
              lines |-> SubSeq(run.autoRewrites, 1, Min(5, Len(run.autoRewrites)))]>>
      ELSE <<>>)

\* ------------------------------------------------------------------------
\* The bot as a state machine: one user's updates, and the handler runs
\* they start, each resumed at its awaits in any order.  Awaits between
\* which a handler neither reads nor writes its session are one step.
\* ------------------------------------------------------------------------

MaxUpdates == 4

MaxRunning == 2

\* n lines, each the given one.
RECURSIVE linesOf(_, _)
linesOf(n, line) == IF n = 1 THEN line ELSE line \o <<"\n">> \o linesOf(n - 1, line)

\* The messages: a fact followed by an emoji, two spaces and a stray
\* symbol; thirteen facts, one more than the smallest puzzle has pieces; a
\* fact that is
\* cut to its first sentence and then a line of one emoji; six facts that
\* are each cut; a fact that nothing shortens; a short fact, then that long
\* one, then a short one; blanks; an unknown command.
Messages ==
  { <<"a", "emoji", " ", " ", "#">>,
    linesOf(13, <<"a">>),
    <<"a", ".", " ", "a", " ", "a", "\n", "emoji">>,
    linesOf(6, <<"a", ".", " ", "a", " ", "a">>),
    <<"a", " ", "a", " ", "a">>,
    <<"a", "\n", "a", " ", "a", " ", "a", "\n", "a">>,
    <<" ">>,
    <<"/", "a">> }

\* The bot is launched with no session and no font.
SessionInit ==
  /\ NoBot
  /\ NoCore
  /\ textToSvg = Null
  /\ geometry = Null
  /\ fitCall = IdleFit
  /\ fitResult = Null
  /\ pspec = Null
  /\ built = {}
  /\ cache = Null
  /\ boxes = Null
  /\ NoRewrite
  /\ NoMirror

notBot == <<textToSvg, fitCall, fitResult, pspec, geometry, built, cache, boxes,
            rewriteCall, rewriteResult, mirrorVars, coreVars>>

\* A handler run suspended at an await: pc names the await, session is the
\* object getSession gave it.
Handler(kind, pc, session, count, drawable) ==
  [kind |-> kind, pc |-> pc, session |-> session, count |-> count, drawable |-> drawable,
   file |-> NoFile, width |-> NullNumber, height |-> NullNumber]

\* What a step did: the replies it sent, the rewrites it stored, and the
\* back side it built (Null when none).
Step(handler, session, sent, rewritten, render) ==
  [handler |-> handler, session |-> session, sent |-> sent, rewritten |-> rewritten,
   render |-> render]

\* The step that ends at the too-long reply, with two ghosts read only by
\* the properties: the facts the session had before the loop, and rawLines.
StepTooLong(session, sent, rewritten, before, rawLines) ==
  [handler |-> "text", session |-> session, sent |-> sent, rewritten |-> rewritten,
   render |-> Null, before |-> before, rawLines |-> rawLines]

\* A step of the text handler past its loop or in its catch, with the same
\* two ghosts.
StepStored(session, sent, rewritten, render, before, rawLines) ==
  [handler |-> "text", session |-> session, sent |-> sent, rewritten |-> rewritten,
   render |-> render, before |-> before, rawLines |-> rawLines]

Without(run, i) == SubSeq(run, 1, i - 1) \o SubSeq(run, i + 1, Len(run))

\* The state a step leaves.  An object that neither the Map nor a suspended
\* handler holds is unreachable and is dropped; the others keep their order.
Commit(objs, key, run, step) ==
  LET live == ({key} \cup {run[i].session : i \in 1..Len(run)}) \ {0}
      rank(k) == Cardinality({j \in live : j <= k})
  IN  /\ objects' = [n \in 1..Cardinality(live) |-> objs[CHOOSE k \in live : rank(k) = n]]
      /\ sessions' = rank(key)
      /\ running' = [i \in 1..Len(run) |-> [run[i] EXCEPT !.session = rank(@)]]
      /\ latest' = [step EXCEPT !.session = IF @ \in live THEN rank(@) ELSE 0]

\* getSession: the objects and the user's key after it.
afterGet == IF sessions = 0 THEN Append(objects, createSession) ELSE objects

keyAfterGet == IF sessions = 0 THEN Len(objects) + 1 ELSE sessions

\* bot.start and bot.command("cancel"): resetSession and a reply.
Command(name) ==
  /\ updates < MaxUpdates
  /\ updates' = updates + 1
  /\ Commit(Append(objects, createSession), Len(objects) + 1, running,
            Step(name, Len(objects) + 1,
                 <<[kind |-> IF name = "start" THEN "welcome" ELSE "cancelled"]>>, <<>>, Null))
  /\ UNCHANGED notBot

\* bot.on("photo"), which has no await.  A photo update carries at least one
\* size, so `largest` is defined.
Photo(file, seed) ==
  /\ updates < MaxUpdates
  /\ updates' = updates + 1
  /\ Commit([afterGet EXCEPT ![keyAfterGet] =
               [@ EXCEPT !.step = "await_size", !.photoFileId = file, !.facts = <<>>,
                         !.rows = NullNumber, !.cols = NullNumber, !.count = NullNumber,
                         !.width = NullNumber, !.height = NullNumber, !.seed = seed,
                         !.puzzlePaths = NoPaths, !.edgeMeta = Null, !.fontScale = 100]],
            keyAfterGet, running,
            Step("photo", keyAfterGet, <<[kind |-> "choose_size"]>>, <<>>, Null))
  /\ UNCHANGED notBot

\* bot.action(/size:(\d+)/) up to `await ctx.answerCbQuery()`.
SizeTap(count) ==
  /\ updates < MaxUpdates
  /\ Len(running) < MaxRunning
  /\ updates' = updates + 1
  /\ Commit(afterGet, keyAfterGet,
            Append(running, Handler("size", "answerCbQuery", keyAfterGet, count, FALSE)),
            Step("size", keyAfterGet, <<>>, <<>>, Null))
  /\ UNCHANGED notBot

\* A handler that replies and returns.
Return(i, handler, sent) ==
  Commit(objects, sessions, Without(running, i),
         Step(handler, running[i].session, sent, <<>>, Null))

\* Lines 814-832: the size is stored and generateFrontImage starts the
\* download of the session's photo.
SizeAnswered(i) ==
  /\ running[i].kind = "size"
  /\ running[i].pc = "answerCbQuery"
  /\ LET session == objects[running[i].session]
         option == findOption(running[i].count)
     IN  IF session.photoFileId = NoFile THEN Return(i, "size", <<[kind |-> "photo_first"]>>)
         ELSE IF option = Null THEN Return(i, "size", <<[kind |-> "unknown_size"]>>)
         ELSE Commit([objects EXCEPT ![running[i].session] =
                        [@ EXCEPT !.rows = option.rows, !.cols = option.cols,
                                  !.count = option.count,
                                  !.fontScale = FONT_SCALE_BY_COUNT[option.count],
                                  !.step = "processing"]],
                     sessions,
                     [running EXCEPT ![i] = [@ EXCEPT !.pc = "download",
                                                      !.file = session.photoFileId]],
                     Step("size", running[i].session, <<[kind |-> "front_start"]>>, <<>>, Null))
  /\ UNCHANGED <<updates, notBot>>

\* A catch that only replies.
FrontFailedStays(i) ==
  Commit(objects, sessions, Without(running, i),
         Step("size", running[i].session, <<[kind |-> "front_failed"]>>, <<>>, Null))

\* The catch of the size handler.
FrontFailed(i) ==
  Commit([objects EXCEPT ![running[i].session].step = "await_photo"], sessions,
         Without(running, i),
         Step("size", running[i].session, <<[kind |-> "front_failed"]>>, <<>>, Null))

\* generateFrontImage after getFileLink, downloadFile and normalizePhoto:
\* the build from the session's rows, cols and seed as they are now.
FrontDownloaded(i, ok, mathRandom) ==
  /\ running[i].kind = "size"
  /\ running[i].pc = "download"
  /\ LET session == objects[running[i].session]
         dims == PhotoDims[running[i].file]
         data == builtFor(dims[1], dims[2], session.rows, session.cols, session.seed,
                          mathRandom)
     IN  IF ~ok THEN FrontFailed(i)
         ELSE Commit([objects EXCEPT ![running[i].session] =
                        [@ EXCEPT !.puzzlePaths = data.paths, !.edgeMeta = data.edgeMeta]],
                     sessions,
                     [running EXCEPT ![i] = [@ EXCEPT !.pc = "composite",
                                                      !.width = dims[1], !.height = dims[2]]],
                     Step("size", running[i].session, <<>>, <<>>, Null))
  /\ UNCHANGED <<updates, notBot>>

\* The size handler after generateFrontImage returned (lines 833-837).
FrontComposited(i, ok) ==
  /\ running[i].kind = "size"
  /\ running[i].pc = "composite"
  /\ IF ~ok THEN FrontFailed(i)
     ELSE Commit([objects EXCEPT ![running[i].session] =
                    [@ EXCEPT !.width = running[i].width, !.height = running[i].height,
                              !.step = "await_facts"]],
                 sessions,
                 [running EXCEPT ![i] = [@ EXCEPT !.pc = "replyWithDocument"]],
                 Step("size", running[i].session, <<>>, <<>>, Null))
  /\ UNCHANGED <<updates, notBot>>

\* The size handler after the front side was sent (line 838).
FrontSent(i, ok) ==
  /\ running[i].kind = "size"
  /\ running[i].pc = "replyWithDocument"
  /\ IF ~ok THEN FrontFailed(i)
     ELSE Return(i, "size", <<[kind |-> "front"], promptOf(objects[running[i].session])>>)
  /\ UNCHANGED <<updates, notBot>>

\* What Math.random may yield when buildBackSvg makes a build of its own.
DrawsFor(session) ==
  IF session.puzzlePaths = NoPaths /\ session.rows # NullNumber THEN MathRandoms
  ELSE {Undefined}

\* sharp can create the back side: its width and height are numbers.
Drawable(session) == session.width # NullNumber /\ session.height # NullNumber

\* Lines 914-945 on the facts the loop stored: the replies, and then the wait
\* for the too-long reply, the preview, or the final back side.
TextStored(objs, key, rawLines, run) ==
  LET stored == [objs EXCEPT ![key].facts = run.facts]
  IN  IF run.rejected
      THEN Commit(stored, key, running,
                  Step("text", key, <<[kind |-> "rejected"]>>, run.autoRewrites, Null))
      ELSE IF run.tooLong # Null
      THEN Commit(stored, key,
                  Append(running, Handler("text", "tooLongReply", key, 0, FALSE)),
                  StepTooLong(key,
                              noticesOf(run) \o <<[kind |-> "too_long",
                                                   index |-> run.tooLong.index,
                                                   text |-> run.tooLong.text]>>,
                              run.autoRewrites, objs[key].facts, rawLines))
      ELSE IF Len(run.facts) < ToNumber(objs[key].count)
      THEN \E mathRandom \in DrawsFor(stored[key]) :
             Commit(stored, key,
                    Append(running, Handler("text", "preview", key, 0, Drawable(stored[key]))),
                    StepStored(key, noticesOf(run), run.autoRewrites,
                               buildBackSvg(stored[key], mathRandom),
                               objs[key].facts, rawLines))
      ELSE \E mathRandom \in DrawsFor(stored[key]) :
             Commit([stored EXCEPT ![key].step = "processing"], key,
                    Append(running, Handler("text", "back", key, 0, Drawable(stored[key]))),
                    StepStored(key, noticesOf(run) \o <<[kind |-> "back_start"]>>,
                               run.autoRewrites, buildBackSvg(stored[key], mathRandom),
                               objs[key].facts, rawLines))

\* A text handler that replies, returns, and sends the user back to the start.
RepliedRestarting(objs, key, sent) ==
  Commit([objs EXCEPT ![key].step = "await_photo"], key, running,
         Step("text", key, sent, <<>>, Null))

\* A text handler that replies and returns before the loop.
Replied(objs, key, sent) == Commit(objs, key, running, Step("text", key, sent, <<>>, Null))

\* bot.on("text") up to its first await, or to its return.
TextOn(text, objs, key) ==
  IF text # <<>> /\ Head(text) = "/" THEN Replied(objs, key, <<>>)
  ELSE IF objs[key].step = "await_photo" THEN Replied(objs, key, <<[kind |-> "photo_first"]>>)
  ELSE IF objs[key].step = "await_size" THEN Replied(objs, key, <<[kind |-> "size_first"]>>)
  ELSE IF objs[key].step # "await_facts" THEN Replied(objs, key, <<[kind |-> "wait"]>>)
  ELSE IF rawLinesOf(text) = <<>> THEN Replied(objs, key, <<[kind |-> "empty_fact"]>>)
  ELSE TextStored(objs, key, rawLinesOf(text),
                  factLoop(objs[key], rawLinesOf(text), newRun(objs[key])))

Text(text) ==
  /\ updates < MaxUpdates
  /\ Len(running) < MaxRunning
  /\ updates' = updates + 1
  /\ TextOn(text, afterGet, keyAfterGet)
  /\ UNCHANGED notBot

\* The text handler after the too-long reply was sent (line 930):
\* sendProgressPreview builds the back side from the session as it is now.
TextTold(i) ==
  /\ running[i].kind = "text"
  /\ running[i].pc = "tooLongReply"
  /\ \E mathRandom \in DrawsFor(objects[running[i].session]) :
       Commit(objects, sessions,
              [running EXCEPT ![i] = [@ EXCEPT !.pc = "preview",
                                               !.drawable = Drawable(objects[running[i].session])]],
              Step("text", running[i].session, <<>>, <<>>,
                   buildBackSvg(objects[running[i].session], mathRandom)))
  /\ UNCHANGED <<updates, notBot>>

\* sendProgressPreview after its awaits, whose failure it catches, and the
\* prompt that follows it.
PreviewSent(i, ok) ==
  /\ running[i].kind = "text"
  /\ running[i].pc = "preview"
  /\ ok => running[i].drawable
  /\ Return(i, "text", (IF ok THEN <<[kind |-> "preview"]>> ELSE <<>>)
                        \o <<promptOf(objects[running[i].session])>>)
  /\ UNCHANGED <<updates, notBot>>

\* A catch that leaves the step as it is.
BackStays(i, ok) ==
  /\ running[i].kind = "text"
  /\ running[i].pc = "back"
  /\ ok => running[i].drawable
  /\ IF ok
     THEN Commit(Append(objects, createSession), Len(objects) + 1, Without(running, i),
                 Step("text", running[i].session, <<[kind |-> "back"], [kind |-> "done"]>>,
                      <<>>, Null))
     ELSE Commit(objects, sessions, Without(running, i),
                 StepStored(running[i].session, <<[kind |-> "back_failed"]>>, <<>>, Null,
                            objects[running[i].session].facts, <<>>))
  /\ UNCHANGED <<updates, notBot>>

\* Lines 945-953 after generateBackImage and replyWithDocument: the user's
\* session is reset, or on a failure the handler's session goes back to
\* await_facts.
BackSent(i, ok) ==
  /\ running[i].kind = "text"
  /\ running[i].pc = "back"
  /\ ok => running[i].drawable
  /\ IF ok
     THEN Commit(Append(objects, createSession), Len(objects) + 1, Without(running, i),
                 Step("text", running[i].session, <<[kind |-> "back"], [kind |-> "done"]>>,
                      <<>>, Null))
     ELSE Commit([objects EXCEPT ![running[i].session].step = "await_facts"], sessions,
                 Without(running, i),
                 StepStored(running[i].session, <<[kind |-> "back_failed"]>>, <<>>, Null,
                            objects[running[i].session].facts, <<>>))
  /\ UNCHANGED <<updates, notBot>>

SessionNext ==
  \/ \E name \in {"start", "cancel"} : Command(name)
  \/ \E file \in PhotoFiles, seed \in SessionSeeds : Photo(file, seed)
  \/ \E count \in TappedCounts : SizeTap(count)
  \/ \E text \in Messages : Text(text)
  \/ \E i \in 1..Len(running) : SizeAnswered(i)
  \/ \E i \in 1..Len(running), ok \in BOOLEAN, mathRandom \in MathRandoms :
       FrontDownloaded(i, ok, mathRandom)
  \/ \E i \in 1..Len(running), ok \in BOOLEAN : FrontComposited(i, ok)
  \/ \E i \in 1..Len(running), ok \in BOOLEAN : FrontSent(i, ok)
  \/ \E i \in 1..Len(running) : TextTold(i)
  \/ \E i \in 1..Len(running), ok \in BOOLEAN : PreviewSent(i, ok)
  \/ \E i \in 1..Len(running), ok \in BOOLEAN : BackSent(i, ok)

SessionSpec == SessionInit /\ [][SessionNext]_vars

\* A suspended handler is resumed: the call it awaits resolves or rejects.
Resumed ==
  \E i \in 1..Len(running) :
    \/ SizeAnswered(i)
    \/ TextTold(i)
    \/ \E ok \in BOOLEAN :
         \/ \E mathRandom \in MathRandoms : FrontDownloaded(i, ok, mathRandom)
         \/ FrontComposited(i, ok)
         \/ FrontSent(i, ok)
         \/ PreviewSent(i, ok)
         \/ BackSent(i, ok)

\* The updates followed to the end of their handlers.
MaxLiveUpdates == 3

SessionLiveNext ==
  \/ \E name \in {"start", "cancel"} : updates < MaxLiveUpdates /\ Command(name)
  \/ \E file \in PhotoFiles, seed \in SessionSeeds : updates < MaxLiveUpdates /\ Photo(file, seed)
  \/ \E count \in TappedCounts : updates < MaxLiveUpdates /\ SizeTap(count)
  \/ \E text \in Messages : updates < MaxLiveUpdates /\ Text(text)
  \/ \E i \in 1..Len(running) : SizeAnswered(i)
  \/ \E i \in 1..Len(running), ok \in BOOLEAN, mathRandom \in MathRandoms :
       FrontDownloaded(i, ok, mathRandom)
  \/ \E i \in 1..Len(running), ok \in BOOLEAN : FrontComposited(i, ok)
  \/ \E i \in 1..Len(running), ok \in BOOLEAN : FrontSent(i, ok)
  \/ \E i \in 1..Len(running) : TextTold(i)
  \/ \E i \in 1..Len(running), ok \in BOOLEAN : PreviewSent(i, ok)
  \/ \E i \in 1..Len(running), ok \in BOOLEAN : BackSent(i, ok)

\* The bot when every awaited call eventually resolves or rejects.
SessionLiveSpec == SessionInit /\ [][SessionLiveNext]_vars /\ WF_vars(Resumed)

\* ------------------------------------------------------------------------
\* The geometry core called directly: buildPuzzleData on any rows, cols and
\* seed, valid or not, and the path builder on any list of edges.
\* ------------------------------------------------------------------------

\* The value of 0 * Infinity, and of any arithmetic on it.
NaN == [nan |-> TRUE]

\* line.amp * cellSize * safetyFactor for a flat edge of a grid cut in count
\* cells: cellSize = length / count is Infinity when count is 0.
flatAmpPx(count) == IF count = 0 THEN NaN ELSE 0

flatEdges(lineGroups, count) ==
  [i \in 1..Len(lineGroups) |->
     [j \in 1..Len(lineGroups[i]) |->
        [ampPx |-> flatAmpPx(count), sign |-> lineGroups[i][j].sign]]]

\* buildPuzzleData when rows or cols is not positive.  Array.from and the
\* loops of buildDistributions take a count below 1 for none, so that no edge
\* is sampled and every line is a two-point border line; its path is
\* "M a L b", whose numbers are finite unless a cell size is Infinity (fmt
\* of NaN or of Infinity is that value again).  Nothing on the way throws.
buildWithoutCells(width, height, rows, cols, seed, mathRandom) ==
  LET rowsLines == buildDistributions(rows, cols, createRng(buildSeed(seed, mathRandom)))
      columnsLines == buildDistributions(cols, rows, rowsLines.rng)
      allLines == flat(rowsLines.lineGroups) \o flat(columnsLines.lineGroups)
  IN  [paths |-> [n \in 1..Len(allLines) |->
                    [kind |-> "ML", finite |-> rows # 0 /\ cols # 0]],
       edgeMeta |-> [horizontal |-> flatEdges(rowsLines.lineGroups, rows),
                     vertical |-> flatEdges(columnsLines.lineGroups, cols)],
       calls |-> columnsLines.rng.calls]

\* buildPuzzleData on any arguments.
buildOn(width, height, rows, cols, seed, mathRandom) ==
  IF rows >= 1 /\ cols >= 1
  THEN buildPuzzleData(width, height, rows, cols, seed, mathRandom)
  ELSE buildWithoutCells(width, height, rows, cols, seed, mathRandom)

\* allLines.map(lineToPath).filter(Boolean): a throw of lineToPath ends the
\* map; otherwise the non-empty paths are kept in order.
pathsOf(allLines, xDen, yDen) ==
  LET drawn == [n \in 1..Len(allLines) |-> lineToPath(allLines[n], xDen, yDen)]
  IN  IF \E n \in 1..Len(drawn) : drawn[n].kind = "TypeError"
      THEN [exception |-> "TypeError"]
      ELSE [paths |-> SelectSeq(drawn, LAMBDA p : p.kind # "empty")]

\* The sides tried go from -1 to MaxCoreSide.
MaxCoreSide == 2

CoreSides == (-1)..MaxCoreSide

\* A list handed to the path builder has up to MaxEdges edges.
MaxEdges == 2

\* Point lists of 0, 1, 2 and 3 points, in whole pixels.
PointLists ==
  { <<>>, << <<0, 0>> >>, << <<0, 0>>, <<10, 0>> >>, << <<0, 0>>, <<5, 3>>, <<10, 0>> >> }

EdgeLists == UNION { [1..n -> PointLists] : n \in 1..MaxEdges }

CoreInit ==
  /\ NoCore
  /\ textToSvg = Null
  /\ geometry = Null
  /\ fitCall = IdleFit
  /\ fitResult = Null
  /\ pspec = Null
  /\ built = {}
  /\ cache = Null
  /\ boxes = Null
  /\ NoRewrite
  /\ NoMirror
  /\ NoBot

notCore == <<textToSvg, fitCall, fitResult, pspec, geometry, built, cache, boxes,
             rewriteCall, rewriteResult, mirrorVars, botVars, streamVars, editorVars>>

\* One call of buildPuzzleData(100, 100, rows, cols, seed).
Build(rows, cols, seed, mathRandom) ==
  /\ buildCall' = [width |-> 100, height |-> 100, rows |-> rows, cols |-> cols, seed |-> seed]
  /\ buildResult' = buildOn(100, 100, rows, cols, seed, mathRandom)
  /\ UNCHANGED <<pathCall, pathResult, notCore>>

\* The edges mapped through lineToPath.
DrawPaths(allLines) ==
  /\ pathCall' = [allLines |-> allLines]
  /\ pathResult' = pathsOf(allLines, 1, 1)
  /\ UNCHANGED <<buildCall, buildResult, notCore>>

CoreNext ==
  \/ \E rows \in CoreSides, cols \in CoreSides, seed \in {42, Undefined},
        mathRandom \in MathRandoms : Build(rows, cols, seed, mathRandom)
  \/ \E allLines \in EdgeLists : DrawPaths(allLines)

CoreSpec == CoreInit /\ [][CoreNext]_vars

\* ------------------------------------------------------------------------
\* The generator as a state machine: createRng on a seed, then up to
\* MaxDraws calls of the closure, bare or through randomBetween.  A seed is
\* low + wraps * 4294967296, of which seed >>> 0 keeps ToUint32(low).
\* ------------------------------------------------------------------------

MaxDraws == 9

\* Seeds: the ends of the range the photo handler draws from, the seeds of
\* the builds above, and a negative one whose state wraps on the first call.
StreamSeeds == {0, 42, 123456789, 999999999, -1}

\* The (min, max) pairs randomBetween is called with.
DrawRanges == { <<CoordinateRanges[i][1], CoordinateRanges[i][2]>> : i \in 1..8 }

notStream == <<textToSvg, fitCall, fitResult, pspec, geometry, built, cache, boxes,
               rewriteCall, rewriteResult, mirrorVars, botVars,
               buildCall, buildResult, pathCall, pathResult, editorVars>>

StreamInit ==
  /\ \E low \in StreamSeeds, wraps \in 0..1 :
       stream = [low |-> low, wraps |-> wraps, rng |-> createRng(low)]
  /\ draw = Null
  /\ NoCall
  /\ NoEditor
  /\ textToSvg = Null
  /\ geometry = Null
  /\ fitCall = IdleFit
  /\ fitResult = Null
  /\ pspec = Null
  /\ built = {}
  /\ cache = Null
  /\ boxes = Null
  /\ NoRewrite
  /\ NoMirror
  /\ NoBot

\* rng(), as edgeDistributions calls it for the sign.
Rand ==
  /\ stream.rng.calls < MaxDraws
  /\ stream' = [stream EXCEPT !.rng = rand(stream.rng).rng]
  /\ draw' = [call |-> "rng", k |-> rand(stream.rng).k]
  /\ UNCHANGED notStream

\* randomBetween(rng, min, max).
RandomBetween(min, max) ==
  /\ stream.rng.calls < MaxDraws
  /\ stream' = [stream EXCEPT !.rng = randomBetween(stream.rng, min, max).rng]
  /\ draw' = [call |-> "randomBetween", k |-> rand(stream.rng).k, min |-> min, max |-> max,
              value |-> randomBetween(stream.rng, min, max).value]
  /\ UNCHANGED notStream

StreamNext ==
  \/ Rand
  \/ \E range \in DrawRanges : RandomBetween(range[1], range[2])

StreamSpec == StreamInit /\ [][StreamNext]_vars

\* ------------------------------------------------------------------------
\* The browser editor's generator (src/unnamed/part_001).  Its createRng,
\* randomBetween, offsetPoints, offsetPoint and transposePoint are those of
\* the bot, character for character, and are the definitions above; its
\* edges carry points only, and its paths print toFixed(2) where the bot
\* prints fmt, which is the same number.
\* ------------------------------------------------------------------------

\* The editor's edgeDistributions: the eight coordinates and the sign, drawn
\* in the same order over the same ranges.
editorSignedEdge(v, s) ==
  LET sign == IF s.k[1] < Half \div 2 THEN -1 ELSE 1
      normalized == << <<0, 0>>, <<v[1], v[2]>>, <<v[3], v[4]>>,
                       <<v[5], v[6]>>, <<v[7], v[8]>>, <<100 * RandUnit, 0>> >>
  IN  [line |-> [points |-> [i \in 1..6 |-> <<normalized[i][1], normalized[i][2] * sign>>]],
       rng |-> s.rng]

editorEdgeFromDraws(d) == editorSignedEdge(d.values, rand(d.rng))

editorEdgeDistributions(rng) ==
  editorEdgeFromDraws(drawCoordinates(rng, CoordinateRanges, <<>>))

\* new Array(columnCount).fill({ points: [[0, 0], [1, 0]] })
editorBorder(columnCount) ==
  [j \in 1..columnCount |-> [points |-> << <<0, 0>>, <<NormDen, 0>> >>]]

\* The editor's buildDistributions: its inner loop, one edge per pass.
RECURSIVE editorLines(_, _, _)
editorPushLine(lines, e, columnCount) == editorLines(Append(lines, e.line), e.rng, columnCount)

editorLines(lines, rng, columnCount) ==
  IF Len(lines) >= columnCount THEN [lines |-> lines, rng |-> rng]
  ELSE editorPushLine(lines, editorEdgeDistributions(rng), columnCount)

\* Its outer loop.
RECURSIVE editorGroups(_, _, _, _)
editorPushGroup(lineGroups, g, rowCount, columnCount) ==
  editorGroups(Append(lineGroups, g.lines), g.rng, rowCount, columnCount)

editorGroups(lineGroups, rng, rowCount, columnCount) ==
  IF Len(lineGroups) >= rowCount THEN [lineGroups |-> lineGroups, rng |-> rng]
  ELSE editorPushGroup(lineGroups, editorLines(<<>>, rng, columnCount), rowCount, columnCount)

editorClose(inner, columnCount) ==
  [lineGroups |-> Append(inner.lineGroups, editorBorder(columnCount)), rng |-> inner.rng]

editorBuildDistributions(rowCount, columnCount, rng) ==
  editorClose(editorGroups(<<editorBorder(columnCount)>>, rng, rowCount, columnCount),
              columnCount)

\* buildPuzzlePaths once both families of edges are sampled.
editorPaths(w, h, r, c, rowsLines, columnsLines) ==
  LET rowsOff == [transposed |-> FALSE, columnWidth |-> w * PxScale, rowHeight |-> h * PxScale]
      colsOff == [transposed |-> TRUE, columnWidth |-> w * PxScale, rowHeight |-> h * PxScale]
      allLines == flat(offsetPoints(rowsLines.lineGroups, rowsOff))
                  \o flat(offsetPoints(columnsLines.lineGroups, colsOff))
      drawn == [n \in 1..Len(allLines) |-> lineToPath(allLines[n], PxDen(c), PxDen(r))]
  IN  SelectSeq(drawn, LAMBDA p : p.kind # "empty")

\* The column edges are sampled after the row edges, on the same generator.
editorColumns(w, h, r, c, rowsLines) ==
  editorPaths(w, h, r, c, rowsLines, editorBuildDistributions(c, r, rowsLines.rng))

\* buildPuzzlePaths(w, h, r, c, seedValue).
buildPuzzlePaths(w, h, r, c, seedValue, mathRandom) ==
  editorColumns(w, h, r, c,
                editorBuildDistributions(r, c,
                  createRng(IF IsFinite(seedValue) THEN seedValue ELSE mathRandom)))

\* seed || 1: a seed of 0 is falsy.
seedOrOne(seed) == IF seed = 0 THEN 1 ELSE seed

\* drawPuzzle's paths, the stage as large as the image; with rows or cols 0
\* it draws nothing.
drawPuzzle(displayWidth, displayHeight, rows, cols, seed) ==
  IF rows = 0 \/ cols = 0 THEN <<>>
  ELSE buildPuzzlePaths(displayWidth, displayHeight, rows, cols, seedOrOne(seed), 1)

\* ------------------------------------------------------------------------
\* The editor as a state machine: the page is opened on a puzzle of up to
\* MaxEditorSide rows and cols with a seed the photo handler can assign, and
\* draws its cut-lines; the bot's build of that puzzle is set beside them.
\* ------------------------------------------------------------------------

MaxEditorSide == 3

\* Math.floor(Math.random() * 1e9): the ends of its range and values between.
EditorSeeds == {0, 1, 42, 123456789, 999999999}

notEditor == <<textToSvg, fitCall, fitResult, pspec, geometry, built, cache, boxes,
               rewriteCall, rewriteResult, mirrorVars, botVars,
               buildCall, buildResult, pathCall, pathResult, streamVars>>

EditorInit ==
  /\ editorCall \in [width : {200}, height : {150, 120}, rows : 1..MaxEditorSide,
                      cols : 1..MaxEditorSide, seed : EditorSeeds]
  /\ editorDrawn = Null
  /\ NoCall
  /\ NoStream
  /\ textToSvg = Null
  /\ geometry = Null
  /\ fitCall = IdleFit
  /\ fitResult = Null
  /\ pspec = Null
  /\ built = {}
  /\ cache = Null
  /\ boxes = Null
  /\ NoRewrite
  /\ NoMirror
  /\ NoBot

DrawPuzzle ==
  /\ editorDrawn = Null
  /\ editorDrawn' =
       [editor |-> drawPuzzle(editorCall.width, editorCall.height, editorCall.rows,
                              editorCall.cols, editorCall.seed),
        bot |-> buildPuzzleData(editorCall.width, editorCall.height, editorCall.rows,
                                editorCall.cols, editorCall.seed, 1).paths]
  /\ UNCHANGED <<editorCall, notEditor>>

EditorNext == DrawPuzzle

EditorSpec == EditorInit /\ [][EditorNext]_vars

\* ------------------------------------------------------------------------
\* Properties of the geometry assembler (under GeometrySpec)
\* ------------------------------------------------------------------------

Rows == pspec.rows

Cols == pspec.cols

Horizontal == cache.data.edgeMeta.horizontal

Vertical == cache.data.edgeMeta.vertical

\* The edges buildDistributions samples: rows between the borders, for the
\* two families.
InteriorEdgeCount == (Rows - 1) * Cols + (Cols - 1) * Rows

\* C1: a build with a finite seed returns the same paths and the same
\* edgeMeta as every earlier build of the same puzzle with that seed,
\* whatever other builds were made before or in between.
C1_SameSeedSameGeometry ==
  (cache # Null /\ IsFinite(cache.seed)) =>
    \A b \in built :
      b.seed = cache.seed =>
        /\ b.data.paths = cache.data.paths
        /\ b.data.edgeMeta = cache.data.edgeMeta

\* C1 witness: seed 42 is built again after builds with other seeds, on a
\* grid that has sampled edges.
C1_RebuiltAmongOthers ==
  /\ cache # Null
  /\ cache.seed = 42
  /\ Rows >= 2 /\ Cols >= 2
  /\ \E b \in built : b.seed = 42
  /\ \E b \in built : b.seed = 123456789
  /\ \E b \in built : ~IsFinite(b.seed) /\ b.data.paths # cache.data.paths

\* C2: the first and last row of edgeMeta.horizontal and the first and last
\* column of edgeMeta.vertical have ampPx = 0 and sign = 0, and the build
\* makes nine draws per sampled (interior) edge and none for a border edge.
C2_BordersFlatAndUndrawn ==
  cache # Null =>
    /\ \A j \in 1..Cols :
         /\ Horizontal[1][j].ampPx = 0 /\ Horizontal[1][j].sign = 0
         /\ Horizontal[Rows + 1][j].ampPx = 0 /\ Horizontal[Rows + 1][j].sign = 0
    /\ \A j \in 1..Rows :
         /\ Vertical[1][j].ampPx = 0 /\ Vertical[1][j].sign = 0
         /\ Vertical[Cols + 1][j].ampPx = 0 /\ Vertical[Cols + 1][j].sign = 0
    /\ cache.data.calls = 9 * InteriorEdgeCount

\* C2 witness: a build of a grid with interior edges, which did draw.
C2_BuiltWithInterior ==
  /\ cache # Null
  /\ Rows >= 3 /\ Cols >= 2
  /\ cache.data.calls > 0
  /\ Horizontal[2][1].sign # 0

\* C3: edgeMeta.horizontal has rows + 1 rows of cols entries and
\* edgeMeta.vertical has cols + 1 columns of rows entries.
C3_EdgeMetaShape ==
  cache # Null =>
    /\ Len(Horizontal) = Rows + 1
    /\ \A i \in 1..Len(Horizontal) : Len(Horizontal[i]) = Cols
    /\ Len(Vertical) = Cols + 1
    /\ \A i \in 1..Len(Vertical) : Len(Vertical[i]) = Rows

\* C3 witness: the 3 x 4 grid built, horizontal [4][4] and vertical [5][3].
C3_ThreeByFourBuilt ==
  /\ cache # Null
  /\ Rows = 3 /\ Cols = 4
  /\ Len(Horizontal) = 4 /\ Len(Horizontal[4]) = 4
  /\ Len(Vertical) = 5 /\ Len(Vertical[5]) = 3

\* C4: the ampPx of every interior edge is non-negative and at most the cell
\* dimension across the edge: rowHeight for a horizontal edge, columnWidth
\* for a vertical one.
C4_AmplitudeWithinCell ==
  cache # Null =>
    /\ \A i \in 2..Rows, j \in 1..Cols :
         /\ Horizontal[i][j].ampPx >= 0
         /\ Horizontal[i][j].ampPx <= pspec.height * PxScale
    /\ \A i \in 2..Cols, j \in 1..Rows :
         /\ Vertical[i][j].ampPx >= 0
         /\ Vertical[i][j].ampPx <= pspec.width * PxScale

\* C4 witness: a build with a horizontal and a vertical interior edge whose
\* amplitudes exceed 0.4 of the cell dimension.
C4_LargeAmplitudesBuilt ==
  /\ cache # Null
  /\ \E i \in 2..Rows, j \in 1..Cols : 5 * Horizontal[i][j].ampPx > 2 * pspec.height * PxScale
  /\ \E i \in 2..Cols, j \in 1..Rows : 5 * Vertical[i][j].ampPx > 2 * pspec.width * PxScale

\* ------------------------------------------------------------------------
\* Properties of the safe-zone calculator (under GeometrySpec)
\* ------------------------------------------------------------------------

Cells == CellsOf(Rows, Cols)

SweptWithEdges == boxes # Null /\ boxes.edgeMeta # Null

PadX == boxes.basePadding * PxDen(Cols)

PadY == boxes.basePadding * PxDen(Rows)

\* The edge between rows i - 1 and i at column j, and the edge between
\* columns i - 1 and i at row j (0-based, as getSafeBox reads them).
HEdge(i, j) == boxes.edgeMeta.horizontal[i + 1][j + 1]

VEdge(i, j) == boxes.edgeMeta.vertical[i + 1][j + 1]

InteriorH == (1..(Rows - 1)) \X (0..(Cols - 1))

InteriorV == (1..(Cols - 1)) \X (0..(Rows - 1))

\* C5: every box of a sweep has width > 0 and height > 0, with or without
\* edge metadata.
C5_BoxPositive ==
  boxes # Null => \A cell \in Cells : boxes.box[cell].width > 0 /\ boxes.box[cell].height > 0

\* C5 witness: a sweep of a 7 x 7 grid with edge metadata in which the insets
\* of some cell left less than 10 px and the fallback rectangle was taken.
C5_FallbackTaken ==
  /\ SweptWithEdges
  /\ Rows = 7 /\ Cols = 7
  /\ \E cell \in Cells :
       /\ pspec.width * PxScale - boxes.inset[cell].left - boxes.inset[cell].right
            < 10 * PxDen(Cols)
       /\ boxes.box[cell].width = 8 * ((pspec.width * PxScale) \div 10)

\* C6: of the two cells along an interior edge exactly one gets an inset
\* beyond the baseline on the side of that edge: the cell below or to the
\* right when sign > 0, the cell above or to the left when sign < 0; a side
\* on the border gets the baseline only.
C6_InsetOnTabSideOnly ==
  SweptWithEdges =>
    /\ \A e \in InteriorH :
         LET below == boxes.inset[<<e[1], e[2]>>].top - PadY
             above == boxes.inset[<<e[1] - 1, e[2]>>].bottom - PadY
         IN  /\ HEdge(e[1], e[2]).sign > 0 => (below > 0 /\ above = 0)
             /\ HEdge(e[1], e[2]).sign < 0 => (above > 0 /\ below = 0)
    /\ \A e \in InteriorV :
         LET right == boxes.inset[<<e[2], e[1]>>].left - PadX
             left == boxes.inset[<<e[2], e[1] - 1>>].right - PadX
         IN  /\ VEdge(e[1], e[2]).sign > 0 => (right > 0 /\ left = 0)
             /\ VEdge(e[1], e[2]).sign < 0 => (left > 0 /\ right = 0)
    /\ \A cell \in Cells :
         /\ cell[1] = 0 => boxes.inset[cell].top = PadY
         /\ cell[1] = Rows - 1 => boxes.inset[cell].bottom = PadY
         /\ cell[2] = 0 => boxes.inset[cell].left = PadX
         /\ cell[2] = Cols - 1 => boxes.inset[cell].right = PadX

\* C6 witness: a sweep over edges of both signs in both families.
C6_BothSignsSwept ==
  /\ SweptWithEdges
  /\ \E e \in InteriorH : HEdge(e[1], e[2]).sign > 0
  /\ \E e \in InteriorH : HEdge(e[1], e[2]).sign < 0
  /\ \E e \in InteriorV : VEdge(e[1], e[2]).sign > 0
  /\ \E e \in InteriorV : VEdge(e[1], e[2]).sign < 0

\* C7: on every side whose edge bulges into the cell the inset (baseline
\* plus amplitude-based) is at least that edge's ampPx.
C7_InsetCoversAmplitude ==
  SweptWithEdges =>
    /\ \A e \in InteriorH :
         /\ HEdge(e[1], e[2]).sign > 0 =>
              boxes.inset[<<e[1], e[2]>>].top >= HEdge(e[1], e[2]).ampPx
         /\ HEdge(e[1], e[2]).sign < 0 =>
              boxes.inset[<<e[1] - 1, e[2]>>].bottom >= HEdge(e[1], e[2]).ampPx
    /\ \A e \in InteriorV :
         /\ VEdge(e[1], e[2]).sign > 0 =>
              boxes.inset[<<e[2], e[1]>>].left >= VEdge(e[1], e[2]).ampPx
         /\ VEdge(e[1], e[2]).sign < 0 =>
              boxes.inset[<<e[2], e[1] - 1>>].right >= VEdge(e[1], e[2]).ampPx

\* ------------------------------------------------------------------------
\* Properties of the text layout engine (under FitSpec)
\* ------------------------------------------------------------------------

\* The call returned a result.
Fitted == fitResult # Null /\ ~IsThrown(fitResult)

Cleaned == trim(collapseSpaces(fitCall.text))

AllWhitespace(text) == \A i \in 1..Len(text) : text[i] \in Whitespace

FitPadding == paddingOf(fitCall.cellWidth, fitCall.cellHeight, fitCall.paddingOverride)

\* The size the font loop stops at.
MinAllowedFont == Max(10, MIN_FONT_SIZE)

\* C8: a text that is empty or all whitespace is fitted as exactly one empty
\* line, not truncated.
C8_EmptyTextOneEmptyLine ==
  (Fitted /\ AllWhitespace(fitCall.text)) =>
    /\ fitResult.lines = << <<>> >>
    /\ fitResult.truncated = FALSE

\* C8 witness: a text of spaces and line breaks fitted with font metrics
\* loaded.
C8_WhitespaceFitted ==
  /\ Fitted
  /\ textToSvg # Null
  /\ Len(fitCall.text) >= 2
  /\ AllWhitespace(fitCall.text)
  /\ \E i \in 1..Len(fitCall.text) : fitCall.text[i] = "\n"

\* C9: a text with a word wider than the available width at the minimum
\* allowed font size is fitted with truncated = true.
C9_TooLongWordTruncated ==
  (/\ Fitted
   /\ Cleaned # <<>>
   /\ LET words == splitOnSpace(Cleaned, <<>>)
      IN  \E i \in 1..Len(words) :
            ~FitsWidth(words[i], MinAllowedFont, maxWidthOf(fitCall.cellWidth, FitPadding)))
  => fitResult.truncated = TRUE

\* C10: a fit that is not truncated keeps the whole normalized text, in
\* order, and each of its lines measures at most the rectangle's width less
\* twice the padding at the returned font size.
C10_FitKeepsTextWithinWidth ==
  (Fitted /\ fitResult.truncated = FALSE) =>
    /\ joinWithSpace(fitResult.lines) = Cleaned
    /\ \A i \in 1..Len(fitResult.lines) :
         RatLeq(measureTextWidth(fitResult.lines[i], fitResult.fontSize), 10,
                fitCall.cellWidth[1] - 2 * FitPadding * fitCall.cellWidth[2],
                fitCall.cellWidth[2])

\* C11: every call returns a result and none throws; a result that is
\* truncated is the layout of the last size tried, the minimum allowed font
\* size, cut to its line cap.
C11_AlwaysAResult ==
  fitResult # Null =>
    /\ ~IsThrown(fitResult)
    /\ fitResult.truncated =>
         /\ fitResult.fontSize = MinAllowedFont
         /\ fitResult.lineHeight = <<MinAllowedFont * 6, 5>>
         /\ Len(fitResult.lines) = fitResult.maxLines

\* C12: with the font-metrics capability absent, or with its measurement
\* call failing, the call still returns a layout, at a font size of the
\* searched range.
C12_MetricsFaultAbsorbed ==
  (fitResult # Null /\ (textToSvg = Null \/ textToSvg.throws)) =>
    /\ ~IsThrown(fitResult)
    /\ fitResult.fontSize >= MinAllowedFont
    /\ fitResult.fontSize <= MAX_FONT_SIZE

\* ------------------------------------------------------------------------
\* Properties of the auto-rewrite reducer (under RewriteSpec)
\* ------------------------------------------------------------------------

\* The call returned a result.
Rewritten == rewriteResult # Null /\ ~IsThrown(rewriteResult)

\* The candidates in the order the reducer is to try them.
CandidateOrder(text) ==
  <<text>> \o splitSentences(text) \o splitClauses(text) \o filteredCandidates(text)

CandidateFits(candidate) ==
  ~tryFit(candidate, rewriteCall.safeBox, rewriteCall.fontScale).truncated

FittingAt(order) == { i \in 1..Len(order) : CandidateFits(order[i]) }

FirstOf(indices) == CHOOSE i \in indices : \A j \in indices : i <= j

HasFailed == "failed" \in DOMAIN rewriteResult

\* C13: the result is the first candidate, in the order original text,
\* sentences, clauses, filtered text, that fits untruncated; changed is true
\* exactly when that is not the original text.
C13_FirstFittingCandidate ==
  Rewritten =>
    LET order == CandidateOrder(rewriteCall.text)
        fitting == FittingAt(order)
        first == FirstOf(fitting)
    IN  fitting # {} =>
          /\ ~HasFailed
          /\ rewriteResult.text = order[first]
          /\ rewriteResult.changed = (first > 1)

\* C13 witness: a text of several sentences of which only the first fits,
\* returned as that sentence with changed = true.
C13_OnlyFirstSentenceFits ==
  /\ Rewritten
  /\ Len(splitSentences(rewriteCall.text)) >= 2
  /\ FittingAt(CandidateOrder(rewriteCall.text)) = {2}
  /\ rewriteResult.text = splitSentences(rewriteCall.text)[1]
  /\ rewriteResult.changed

\* C14: when no candidate fits the result has failed = true, the original
\* text, and the fit of the last candidate attempted; when one fits the
\* result has that candidate's text, its own untruncated fit, and no failed
\* flag.
C14_FailureCarriesLastAttempt ==
  Rewritten =>
    LET order == CandidateOrder(rewriteCall.text)
    IN  IF FittingAt(order) = {}
        THEN /\ HasFailed
             /\ rewriteResult.failed = TRUE
             /\ rewriteResult.text = rewriteCall.text
             /\ rewriteResult.fit =
                  tryFit(order[Len(order)], rewriteCall.safeBox, rewriteCall.fontScale)
        ELSE /\ ~HasFailed
             /\ \E i \in 1..Len(order) : rewriteResult.text = order[i]
             /\ rewriteResult.fit =
                  tryFit(rewriteResult.text, rewriteCall.safeBox, rewriteCall.fontScale)
             /\ ~rewriteResult.fit.truncated

\* C14 as the code has it: when no candidate fits the result has failed =
\* true, the original text, changed = false, and the fit of the original
\* text; when one fits the result has that candidate's text, its own
\* untruncated fit, and no failed flag.
C14_FailureCarriesOriginalFit ==
  Rewritten =>
    LET order == CandidateOrder(rewriteCall.text)
    IN  IF FittingAt(order) = {}
        THEN /\ HasFailed
             /\ rewriteResult.failed = TRUE
             /\ rewriteResult.text = rewriteCall.text
             /\ rewriteResult.changed = FALSE
             /\ rewriteResult.fit =
                  tryFit(rewriteCall.text, rewriteCall.safeBox, rewriteCall.fontScale)
        ELSE /\ ~HasFailed
             /\ \E i \in 1..Len(order) : rewriteResult.text = order[i]
             /\ rewriteResult.fit =
                  tryFit(rewriteResult.text, rewriteCall.safeBox, rewriteCall.fontScale)
             /\ ~rewriteResult.fit.truncated

\* C14 witness: a failed rewrite whose last candidate, a clause, has a fit
\* other than the one returned.
C14_FailedAfterClauses ==
  /\ Rewritten
  /\ HasFailed
  /\ Len(splitClauses(rewriteCall.text)) >= 2
  /\ filteredCandidates(rewriteCall.text) = <<>>
  /\ rewriteResult.fit #
       tryFit(splitClauses(rewriteCall.text)[Len(splitClauses(rewriteCall.text))],
              rewriteCall.safeBox, rewriteCall.fontScale)

\* ------------------------------------------------------------------------
\* Properties of mirroring (under MirrorSpec)
\* ------------------------------------------------------------------------

MirrorCells == CellsOf(mirrorCall.rows, mirrorCall.cols)

\* The fact of front cell <<r, c>>, empty when it is not filled yet.
FrontFact(r, c) ==
  IF r * mirrorCall.cols + c < Len(mirrorCall.facts)
  THEN mirrorCall.facts[r * mirrorCall.cols + c + 1]
  ELSE <<>>

FullyPopulated ==
  /\ Len(mirrorCall.facts) = mirrorCall.rows * mirrorCall.cols
  /\ \A i \in 1..Len(mirrorCall.facts) : mirrorCall.facts[i] # <<>>

\* C16: a fully populated list of rows x cols facts mirrored twice is the
\* list itself, element by element.
C16_MirrorTwiceIsIdentity ==
  (mirroredBack # Null /\ FullyPopulated) => mirroredBack.facts = mirrorCall.facts

\* C16 witness: a full grid of three columns, whose facts differ along a
\* row, mirrored twice.
C16_FullGridMirroredTwice ==
  /\ mirroredBack # Null
  /\ FullyPopulated
  /\ mirrorCall.cols = 3
  /\ mirrorCall.facts[1] # mirrorCall.facts[3]

\* C17: the mirrored list holds at r * cols + (cols - 1 - c) the fact at
\* r * cols + c, or the empty text when that position is not filled, and
\* the back render draws in cell <<r, cols - 1 - c>> the fact of front
\* cell <<r, c>>.
C17_MirrorIsColumnFlip ==
  /\ mirrored # Null =>
       /\ Len(mirrored.facts) = Max(Len(mirrorCall.facts), mirrorCall.rows * mirrorCall.cols)
       /\ \A cell \in MirrorCells :
            arrayAt(mirrored.facts, cell[1] * mirrorCall.cols + (mirrorCall.cols - 1 - cell[2]))
              = FrontFact(cell[1], cell[2])
  /\ backCells # Null =>
       \A cell \in MirrorCells :
         backCells.texts[<<cell[1], mirrorCall.cols - 1 - cell[2]>>] = FrontFact(cell[1], cell[2])

\* C17 witness: a partly filled grid of several rows and columns, mirrored
\* and drawn, with a fact that moved to another column.
C17_PartGridMirroredAndDrawn ==
  /\ mirrored # Null
  /\ backCells # Null
  /\ mirrorCall.rows >= 2
  /\ mirrorCall.cols >= 2
  /\ Len(mirrorCall.facts) \in 1..(mirrorCall.rows * mirrorCall.cols - 1)
  /\ backCells.texts[<<0, mirrorCall.cols - 1>>] = mirrorCall.facts[1]
  /\ backCells.texts[<<0, 0>>] # mirrorCall.facts[1]

\* ------------------------------------------------------------------------
\* Properties of the sessions and handlers (under SessionSpec)
\* ------------------------------------------------------------------------

\* The step just taken sent a reply of this kind.
Sent(kind) == \E r \in 1..Len(latest.sent) : latest.sent[r].kind = kind

\* C15: every rewrite a run of the text handler stored is named, with its
\* index, original and replacement, in a reply of that run.
C15_EveryRewriteNamed ==
  latest # Null =>
    \A k \in 1..Len(latest.rewritten) :
      \E r \in 1..Len(latest.sent) :
        /\ latest.sent[r].kind = "rewrites"
        /\ \E n \in 1..Len(latest.sent[r].lines) :
             latest.sent[r].lines[n] = latest.rewritten[k]

\* C18: right after a photo is taken in, and right after a size selection is
\* stored, the session holds no fact.
C18_NoFactAfterPhotoOrSize ==
  (latest # Null /\ (latest.handler = "photo" \/ (latest.handler = "size" /\ Sent("front_start"))))
    => objects[latest.session].facts = <<>>

\* The session's geometry is the build of its own width, height, rows, cols
\* and seed.
OwnGeometry(session) ==
  /\ session.seed # Undefined
  /\ session.puzzlePaths =
       builtFor(session.width, session.height, session.rows, session.cols,
                session.seed, session.seed).paths
  /\ session.edgeMeta =
       builtFor(session.width, session.height, session.rows, session.cols,
                session.seed, session.seed).edgeMeta

\* C19: while the user's session awaits facts its rows, cols, count, width,
\* height, puzzlePaths and edgeMeta are all set, the size is one of
\* SIZE_OPTIONS, the dimensions are those of the session's photo, and the
\* geometry is the build for them.
C19_AwaitFactsIsComplete ==
  (sessions # 0 /\ objects[sessions].step = "await_facts") =>
    /\ objects[sessions].rows # NullNumber
    /\ objects[sessions].cols # NullNumber
    /\ objects[sessions].count # NullNumber
    /\ objects[sessions].width # NullNumber
    /\ objects[sessions].height # NullNumber
    /\ objects[sessions].puzzlePaths # NoPaths
    /\ objects[sessions].edgeMeta # Null
    /\ \E i \in 1..Len(SIZE_OPTIONS) :
         /\ SIZE_OPTIONS[i].rows = objects[sessions].rows
         /\ SIZE_OPTIONS[i].cols = objects[sessions].cols
         /\ SIZE_OPTIONS[i].count = objects[sessions].count
    /\ <<objects[sessions].width, objects[sessions].height>>
         = PhotoDims[objects[sessions].photoFileId]
    /\ OwnGeometry(objects[sessions])

\* C20: every back side is drawn with the paths and edgeMeta of the build
\* for the width, height, rows, cols and seed the session has at that
\* moment, and never with a build of its own.
C20_BackDrawnOnSessionGeometry ==
  (latest # Null /\ latest.render # Null) =>
    /\ ~latest.render.ownBuild
    /\ latest.render.seed # Undefined
    /\ latest.render.lines =
         builtFor(latest.render.width, latest.render.height, latest.render.rows,
                  latest.render.cols, latest.render.seed, latest.render.seed).paths
    /\ latest.render.edgeMeta =
         builtFor(latest.render.width, latest.render.height, latest.render.rows,
                  latest.render.cols, latest.render.seed, latest.render.seed).edgeMeta

\* ------------------------------------------------------------------------
\* Properties of the geometry core called directly (under CoreSpec)
\* ------------------------------------------------------------------------

\* rows <= 0, cols <= 0 or a seed that is not finite.
InvalidSpec == buildCall.rows <= 0 \/ buildCall.cols <= 0 \/ ~IsFinite(buildCall.seed)

\* C21: a build called with an invalid puzzle spec ends in an error and
\* returns neither paths nor edge metadata.
C21_InvalidSpecFailsFast ==
  (buildResult # Null /\ InvalidSpec) => IsThrown(buildResult)

\* The edges of the call that have at least two points, in order.
DrawableEdges == SelectSeq(pathCall.allLines, LAMBDA points : Len(points) >= 2)

\* C22: the path builder raises no error on an empty or one-point edge; it
\* leaves that edge's path out and returns the path of every other edge.
C22_DegenerateEdgesOmitted ==
  pathResult # Null =>
    /\ ~IsThrown(pathResult)
    /\ pathResult.paths = [n \in 1..Len(DrawableEdges) |-> lineToPath(DrawableEdges[n], 1, 1)]

\* ------------------------------------------------------------------------
\* Properties of the stored facts (under SessionSpec)
\* ------------------------------------------------------------------------

Punctuation == {".", ",", ";", ":", "!", "?", "'", "\"", "(", ")", "-"}

\* Non-empty; only letters, single spaces and the allowed punctuation; no
\* space at either end.
IsSanitized(fact) ==
  /\ fact # <<>>
  /\ \A i \in 1..Len(fact) : fact[i] \in Letters \cup {" "} \cup Punctuation
  /\ fact[1] # " " /\ fact[Len(fact)] # " "
  /\ \A i \in 1..(Len(fact) - 1) : ~(fact[i] = " " /\ fact[i + 1] = " ")

\* C23: every fact of every session is a non-empty sanitized string.
C23_FactsAreSanitized ==
  \A o \in 1..Len(objects) :
    \A k \in 1..Len(objects[o].facts) : IsSanitized(objects[o].facts[k])

\* A line that sanitizeFact changed, its emoji, spaces and stray symbol
\* removed, has just been stored.
C23_ChangedLineStored ==
  /\ latest # Null
  /\ latest.handler = "text"
  /\ Sent("sanitized")
  /\ latest.session # 0
  /\ \E k \in 1..Len(objects[latest.session].facts) :
       objects[latest.session].facts[k] = <<"a">>

\* The back side just built has a grid.
RenderedOnGrid ==
  latest # Null /\ latest.render # Null
    /\ latest.render.rows # NullNumber /\ latest.render.cols # NullNumber
    /\ latest.render.width # NullNumber /\ latest.render.height # NullNumber

\* The cells of the back side just built in which a fact is drawn.
DrawnCells ==
  { cell \in CellsOf(latest.render.rows, latest.render.cols) : latest.render.texts[cell] # <<>> }

\* The fact drawn in cell (r, c) is fact number r * cols + (cols - 1 - c) + 1,
\* which the text handler checked in the safe box of that number.
CheckedBox(r, c) ==
  safeBoxFor(latest.render, r * latest.render.cols + (latest.render.cols - 1 - c) + 1)

\* C24: a fact is drawn in the safe box it was checked in, and the fit at
\* render time is not truncated.
C24_DrawnWhereChecked ==
  RenderedOnGrid =>
    \A cell \in DrawnCells :
      /\ safeBoxFor(latest.render, cell[1] * latest.render.cols + cell[2] + 1)
           = CheckedBox(cell[1], cell[2])
      /\ ~drawnFit(latest.render, cell[1], cell[2]).truncated

\* ------------------------------------------------------------------------
\* Properties of the font-size search (under FitSpec)
\* ------------------------------------------------------------------------

FitScale == IF IsFinite(fitCall.fontScale) THEN fitCall.fontScale ELSE 100

\* Math.max(scaledMin, Math.floor(maxFont * scale))
ScaledMaxFont == Max(MinAllowedFont, (MAX_FONT_SIZE * FitScale) \div 100)

\* floor(0.2 * min(width, height) * scale) clamped to [minFont, scaledMaxFont].
InitialFont ==
  Min(ScaledMaxFont,
      Max(MinAllowedFont,
          FloorScaled(RatMin(fitCall.cellWidth, fitCall.cellHeight), 2 * FitScale, 1000)))

\* C25: the search ends after at least one and at most 40 wrap attempts; it
\* starts at the initial size, steps down by exactly 1 per attempt, and tries
\* no size below the minimum font size.
C25_SearchIsBounded ==
  fitResult # Null =>
    /\ Len(fitResult.tried) \in 1..40
    /\ fitResult.tried[1] = InitialFont
    /\ \A i \in 1..(Len(fitResult.tried) - 1) :
         fitResult.tried[i + 1] = fitResult.tried[i] - 1
    /\ \A i \in 1..Len(fitResult.tried) : fitResult.tried[i] >= MinAllowedFont

\* A search that went through three sizes and found none that fits.
C25_ThreeSizesTried ==
  /\ Fitted
  /\ fitResult.truncated
  /\ fitResult.tried = <<14, 13, 12>>

\* The layout of the call's text at a given size.
LayoutAtSize(size) ==
  layoutAt(fitCall.text, fitCall.cellWidth, fitCall.cellHeight, FitPadding, size)

\* C26: an untruncated result has a font size between the minimum and the
\* scaled maximum, at most the initial size, and every size from the initial
\* one down to the one above it is truncated.
C26_LargestFittingSize ==
  (Fitted /\ ~fitResult.truncated) =>
    /\ fitResult.fontSize >= MinAllowedFont
    /\ fitResult.fontSize <= ScaledMaxFont
    /\ fitResult.fontSize <= InitialFont
    /\ \A size \in (fitResult.fontSize + 1)..InitialFont : LayoutAtSize(size).truncated

\* A text that is truncated at 14 and 13 and fits at 12.
C26_FitsTwoSizesDown ==
  /\ Fitted
  /\ ~fitResult.truncated
  /\ InitialFont = 14
  /\ fitResult.fontSize = 12

\* height - 2 * padding, over the height's denominator.
AvailableHeight == fitCall.cellHeight[1] - 2 * FitPadding * fitCall.cellHeight[2]

\* floor((height - 2 * padding) / lineHeight) at the returned font size,
\* lineHeight being 1.2 times the font size.
LinesInHeight == (5 * AvailableHeight) \div (6 * fitResult.fontSize * fitCall.cellHeight[2])

\* C27: the number of returned lines never exceeds
\* min(floor((height - 2 * padding) / lineHeight), MAX_TEXT_LINES).
C27_LinesWithinBothCaps ==
  Fitted => Len(fitResult.lines) <= Min(LinesInHeight, MAX_TEXT_LINES)

\* C27 as the code has it: one line is always allowed, so the number of
\* returned lines never exceeds max(1, min(floor((height - 2 * padding) /
\* lineHeight), MAX_TEXT_LINES)), and an untruncated result's lines fit in
\* the available height whenever that height holds one line.
C27_LinesWithinCapsOrOne ==
  Fitted =>
    /\ Len(fitResult.lines) <= Max(1, Min(LinesInHeight, MAX_TEXT_LINES))
    /\ (~fitResult.truncated /\ LinesInHeight >= 1) =>
         Len(fitResult.lines) * 6 * fitResult.fontSize * fitCall.cellHeight[2]
           <= 5 * AvailableHeight

\* A one-line result in a rectangle whose available height holds no line,
\* and whose text wraps to two.
C27_OneLineInShortRect ==
  /\ Fitted
  /\ LinesInHeight < 1
  /\ fitResult.truncated
  /\ Len(fitResult.lines) = 1

\* ------------------------------------------------------------------------
\* Properties of the safe-box fallback (under GeometrySpec)
\* ------------------------------------------------------------------------

\* The raw cell's width, over PxDen(Cols), and height, over PxDen(Rows).
CellW == pspec.width * PxScale

CellH == pspec.height * PxScale

\* The inset-derived safe width and height of a cell.
InsetWidth(cell) == CellW - boxes.inset[cell].left - boxes.inset[cell].right

InsetHeight(cell) == CellH - boxes.inset[cell].top - boxes.inset[cell].bottom

NarrowX(cell) == InsetWidth(cell) < 10 * PxDen(Cols)

ShortY(cell) == InsetHeight(cell) < 10 * PxDen(Rows)

\* The box spans the centered 80% of the raw cell on the axis.
Centered80X(cell) ==
  /\ boxes.box[cell].left = cell[2] * CellW + CellW \div 10
  /\ boxes.box[cell].right = cell[2] * CellW + (CellW \div 10) * 9

Centered80Y(cell) ==
  /\ boxes.box[cell].top = cell[1] * CellH + CellH \div 10
  /\ boxes.box[cell].bottom = cell[1] * CellH + (CellH \div 10) * 9

\* The box spans what the insets leave on the axis.
InsetX(cell) ==
  /\ boxes.box[cell].left = cell[2] * CellW + boxes.inset[cell].left
  /\ boxes.box[cell].right = cell[2] * CellW + CellW - boxes.inset[cell].right

InsetY(cell) ==
  /\ boxes.box[cell].top = cell[1] * CellH + boxes.inset[cell].top
  /\ boxes.box[cell].bottom = cell[1] * CellH + CellH - boxes.inset[cell].bottom

\* C28: a cell whose inset-derived safe width or height is below 10 px gets
\* the rectangle centered in the raw cell with 80% of its width and of its
\* height; any other cell gets the inset-derived box.
C28_FallbackIsWholeBox ==
  boxes # Null =>
    \A cell \in Cells :
      IF NarrowX(cell) \/ ShortY(cell)
      THEN Centered80X(cell) /\ Centered80Y(cell)
      ELSE InsetX(cell) /\ InsetY(cell)

\* C28 as the code has it: each axis falls back on its own.  A safe width
\* below 10 px gives the centered 80% of the raw width, a safe height below
\* 10 px the centered 80% of the raw height, and an axis of 10 px or more
\* keeps its inset-derived span.
C28_FallbackPerAxis ==
  boxes # Null =>
    \A cell \in Cells :
      /\ IF NarrowX(cell) THEN Centered80X(cell) ELSE InsetX(cell)
      /\ IF ShortY(cell) THEN Centered80Y(cell) ELSE InsetY(cell)
      /\ boxes.box[cell].width = boxes.box[cell].right - boxes.box[cell].left
      /\ boxes.box[cell].height = boxes.box[cell].bottom - boxes.box[cell].top

\* A sweep, over sampled edges, with a cell that falls back on one axis only.
C28_OneAxisFallsBack ==
  /\ SweptWithEdges
  /\ \E cell \in Cells : NarrowX(cell) # ShortY(cell)
\* ------------------------------------------------------------------------
\* Properties of the filtered candidate (under RewriteSpec)
\* ------------------------------------------------------------------------

\* The candidates tried before the filtered text.
EarlierCandidates ==
  <<rewriteCall.text>> \o splitSentences(rewriteCall.text) \o splitClauses(rewriteCall.text)

NoEarlierFits ==
  \A i \in 1..Len(EarlierCandidates) : ~CandidateFits(EarlierCandidates[i])

\* filtered.join(" ")
FilteredText == joinWithSpace(filteredWords(rewriteCall.text))

\* The filtered text has at least 60% of the characters of the original.
SixtyPercent == 10 * Len(FilteredText) >= 6 * Max(1, Len(rewriteCall.text))

\* C29: when nothing before it fits, the filtered text is returned only if
\* its length is at least 60% of the original's length; a filtered text
\* below 60% is rejected, fitting or not, and the rewrite fails.
C29_FilteredNeedsSixtyPercent ==
  (Rewritten /\ NoEarlierFits /\ filteredWords(rewriteCall.text) # <<>>) =>
    IF SixtyPercent /\ CandidateFits(FilteredText)
    THEN /\ ~HasFailed
         /\ rewriteResult.text = FilteredText
         /\ rewriteResult.changed
    ELSE /\ HasFailed
         /\ rewriteResult.text = rewriteCall.text

\* C29 witness: a failed rewrite whose filtered text would fit but has less
\* than 60% of the original's length.
C29_FittingCandidateRejected ==
  /\ Rewritten
  /\ NoEarlierFits
  /\ filteredWords(rewriteCall.text) # <<>>
  /\ ~SixtyPercent
  /\ CandidateFits(FilteredText)
  /\ HasFailed

\* ------------------------------------------------------------------------
\* Properties of a fact that does not fit (under SessionSpec)
\* ------------------------------------------------------------------------

\* The too-long reply of the latest step.
TooLongReply ==
  latest.sent[CHOOSE r \in 1..Len(latest.sent) : latest.sent[r].kind = "too_long"]

\* C30: when a line of a text message cannot be fitted even after the
\* rewrite, the handler keeps the facts it had and those of the message's
\* earlier lines, stores neither that line nor a later one, leaves step =
\* "await_facts", and reports the sanitized line for piece facts.length + 1.
C30_TooLongStopsTheMessage ==
  (latest # Null /\ latest.handler = "text" /\ Sent("too_long")) =>
    LET before == latest.before
        lines == latest.rawLines
        failing == Len(objects[latest.session].facts) - Len(before) + 1
    IN  /\ latest.session # 0
        /\ failing \in 1..Len(lines)
        /\ SubSeq(objects[latest.session].facts, 1, Len(before)) = before
        /\ \A j \in 1..(failing - 1) :
              \/ objects[latest.session].facts[Len(before) + j] = sanitizeFact(lines[j])
              \/ \E w \in 1..Len(latest.rewritten) :
                   /\ latest.rewritten[w].index = Len(before) + j
                   /\ latest.rewritten[w].from = sanitizeFact(lines[j])
                   /\ latest.rewritten[w].to = objects[latest.session].facts[Len(before) + j]
        /\ TooLongReply.text = sanitizeFact(lines[failing])
        /\ TooLongReply.index = Len(objects[latest.session].facts) + 1
        /\ objects[latest.session].step = "await_facts"

\* C30 witness: a message of three lines to a session without facts, whose
\* first line was stored and whose second did not fit: one fact is stored
\* and the failure is reported for piece 2.
C30_SecondLineTooLong ==
  /\ latest # Null
  /\ latest.handler = "text"
  /\ latest.session # 0
  /\ Sent("too_long")
  /\ TooLongReply.index = 2
  /\ TooLongReply.text = <<"a", " ", "a", " ", "a">>
  /\ objects[latest.session].facts = << <<"a">> >>
  /\ objects[latest.session].step = "await_facts"
  /\ latest.before = <<>>
  /\ Len(latest.rawLines) = 3

\* ------------------------------------------------------------------------
\* Properties of the generator (under StreamSpec)
\* ------------------------------------------------------------------------

\* The generator createRng(seed) after n calls.
RECURSIVE Replay(_, _)
Replay(seed, n) == IF n = 0 THEN createRng(seed) ELSE rand(Replay(seed, n - 1)).rng

C32_FactsWithinCount ==
  \A o \in 1..Len(objects) :
    objects[o].count # NullNumber => Len(objects[o].facts) <= objects[o].count

\* ------------------------------------------------------------------------
\* Properties of the reset that ends a puzzle (under SessionSpec)
\* ------------------------------------------------------------------------

\* The user has sent a photo that waits for its size: the session the Map
\* holds has a photo and step = "await_size".
Restarted ==
  /\ sessions # 0
  /\ objects[sessions].step = "await_size"
  /\ objects[sessions].photoFileId # NoFile

\* C33: when the back side of a completed puzzle is delivered after the user
\* has sent a new photo, the user's session still holds that photo and step
\* = "await_size": the reset does not overwrite a restarted session.
C33_ResetKeepsNewPhoto ==
  [][\A i \in 1..Len(running) :
       (Restarted /\ running[i].kind = "text" /\ running[i].pc = "back" /\ BackSent(i, TRUE)) =>
         /\ sessions' # 0
         /\ objects'[sessions'].photoFileId = objects[sessions].photoFileId
         /\ objects'[sessions'].step = "await_size"]_vars

\* ------------------------------------------------------------------------
\* Properties of the last fact (under SessionSpec)
\* ------------------------------------------------------------------------

\* The latest step is the text handler's, past its loop, on a session that
\* is still held.
PastLoop ==
  /\ latest # Null
  /\ latest.handler = "text"
  /\ "before" \in DOMAIN latest
  /\ latest.session # 0
  /\ ~Sent("back_failed")

\* C34: a text that leaves count facts or more sets step = "processing" and
\* renders the back from them, appending nothing when the session had them
\* already (the retry after a failure); a delivered back leaves the user a
\* fresh session; a failed one sets step = "await_facts" with the facts as
\* they were.
C34_LastFactRendersBack ==
  /\ (PastLoop /\ Len(objects[latest.session].facts) >= ToNumber(objects[latest.session].count)) =>
       /\ objects[latest.session].step = "processing"
       /\ Sent("back_start")
       /\ latest.render # Null
       /\ latest.render.texts = backTexts(objects[latest.session].facts,
                                          ToNumber(objects[latest.session].rows),
                                          ToNumber(objects[latest.session].cols))
       /\ Len(latest.before) >= ToNumber(objects[latest.session].count) =>
            objects[latest.session].facts = latest.before
  /\ (latest # Null /\ latest.handler = "text" /\ Sent("done")) =>
       /\ sessions # 0
       /\ objects[sessions] = createSession
  /\ (latest # Null /\ latest.handler = "text" /\ Sent("back_failed") /\ latest.session # 0) =>
       /\ objects[latest.session].step = "await_facts"
       /\ objects[latest.session].facts = latest.before

\* C34 witness: a text to a session that holds all twelve facts of its
\* puzzle in step "await_facts", as a failed render left it, renders the
\* back again and appends nothing.
C34_RetryAfterFailure ==
  /\ PastLoop
  /\ Sent("back_start")
  /\ objects[latest.session].count = 12
  /\ Len(latest.before) = 12
  /\ objects[latest.session].facts = latest.before
  /\ latest.rawLines # <<>>
  /\ objects[latest.session].step = "processing"

\* ------------------------------------------------------------------------
\* Properties of the step "processing" (under SessionLiveSpec)
\* ------------------------------------------------------------------------

\* The user's session is in step "processing".
ProcessingHeld == sessions # 0 /\ objects[sessions].step = "processing"

\* C35: when every awaited call resolves or rejects, the user's session does
\* not stay in step "processing": it is never there once no handler is
\* suspended, and whenever it is there it later is not.
C35_ProcessingEnds ==
  /\ [](running = <<>> => ~ProcessingHeld)
  /\ (ProcessingHeld ~> ~ProcessingHeld)

\* C35 witness: the front side failed after the size was stored, no handler
\* is left, and the user's session is in step "await_photo" with its size.
C35_FrontFailedToAwaitPhoto ==
  /\ latest # Null
  /\ latest.handler = "size"
  /\ Sent("front_failed")
  /\ running = <<>>
  /\ sessions # 0
  /\ latest.session = sessions
  /\ objects[sessions].count # NullNumber
  /\ objects[sessions].step = "await_photo"

\* ------------------------------------------------------------------------
\* Properties of the refused updates (under SessionLiveSpec)
\* ------------------------------------------------------------------------

\* The handler's session after the step is the record it was before.
SameSession(was) == latest'.session # 0 => objects'[latest'.session] = was

\* C36: a text that starts with "/" or arrives in a step other than
\* "await_facts", and a size selection without a photo or with an unknown
\* count, leave every field of the session as it was.
C36_RefusalsChangeNothing ==
  [][/\ \A text \in Messages :
          (/\ updates' = updates + 1
           /\ Head(text) = "/" \/ afterGet[keyAfterGet].step # "await_facts"
           /\ Text(text)) =>
            /\ sessions' # 0
            /\ latest'.session = sessions'
            /\ SameSession(afterGet[keyAfterGet])
     /\ \A i \in 1..Len(running) :
          (/\ running[i].kind = "size"
           /\ running[i].pc = "answerCbQuery"
           /\ \/ objects[running[i].session].photoFileId = NoFile
              \/ findOption(running[i].count) = Null
           /\ SizeAnswered(i)) =>
            SameSession(objects[running[i].session])]_vars

\* C36 witness: a text was refused while the session, its size chosen, was
\* in step "processing".
C36_TextWhileProcessing ==
  /\ latest # Null
  /\ latest.handler = "text"
  /\ Sent("wait")
  /\ latest.session # 0
  /\ objects[latest.session].step = "processing"
  /\ objects[latest.session].count # NullNumber

\* ------------------------------------------------------------------------
\* Properties of the editor's cut-lines (under EditorSpec)
\* ------------------------------------------------------------------------

\* C37: for every seed the photo handler can assign, and the same rows, cols
\* and size, the editor draws the cut-lines the bot builds.
C37_EditorDrawsBotLines ==
  editorDrawn # Null => editorDrawn.editor = editorDrawn.bot

====
